---- MODULE Spec2Model ----
(***************************************************************************)
(* A model of sqlglot's recursive-descent parser (sqlglot/parser.py).      *)
(*                                                                         *)
(* The Parser instance is the record `self`; every grammar routine is an   *)
(* operator that takes the threaded state `st` (the instance fields plus   *)
(* the history of the running call) and returns [st |-> st', v |-> value], *)
(* in the evaluation order of the Python code.  An exception is the field  *)
(* st.exc: once it is set every state-changing primitive is a no-op, which *)
(* is how the exception unwinds the call stack.                            *)
(***************************************************************************)
EXTENDS Integers, Sequences, FiniteSets, TLC

VARIABLES
    self,         \* the Parser instance: its fields, as reset() lays them out
    pc,           \* where the caller is: "idle", "chunks", "returned", "raised"
    call,         \* the public call in progress or just ended, with its arguments
    chunk_no,     \* position of `for tokens in self._chunks` (0-based)
    expressions,  \* the local list `expressions` that parse() builds
    returned,     \* the value the last call returned, None while it has not
    parents,      \* the (node, parent, arg_key) back-references set by the post-pass
    hist          \* history of the call: diagnostics, log, consumed tokens, exception

vars == <<self, pc, call, chunk_no, expressions, returned, parents, hist>>

(***************************************************************************)
(* Bounds of the model.                                                    *)
(***************************************************************************)
MaxTokens == 3
MaxArgs == 4
MaxReused == 1

(***************************************************************************)
(* Python values.  Every value is a record of the same shape so that any   *)
(* two values can be compared: t is the Python type, s the token type or   *)
(* the expression class, x the text, (line, col) a token's position, c the *)
(* children (a list's items, a node's args as slots in keyword order, a    *)
(* slot's single value).  An Expression object is identified by its place  *)
(* in the tree that holds it.                                              *)
(***************************************************************************)
Val(t, s, x, line, col, c) ==
    [t |-> t, s |-> s, x |-> x, line |-> line, col |-> col, c |-> c]

NoneV == Val("none", "", "", 0, 0, <<>>)
Token(token_type, text, line, col) == Val("tok", token_type, text, line, col, <<>>)
StrV(text) == Val("str", "", text, 0, 0, <<>>)
BoolV(b) == Val("bool", IF b THEN "True" ELSE "False", "", 0, 0, <<>>)
TrueV == BoolV(TRUE)
FalseV == BoolV(FALSE)
ListV(items) == Val("list", "", "", 0, 0, items)
Slot(k, v) == Val("slot", k, "", 0, 0, <<v>>)
Node(class, args) == Val("node", class, "", 0, 0, args)

IsNone(v) == v.t = "none"
IsToken(v) == v.t = "tok"
IsNode(v) == v.t = "node"
IsList(v) == v.t = "list"

\* Python truthiness: None, False, "" and [] are false; objects are true.
Truthy(v) ==
    CASE v.t = "none" -> FALSE
      [] v.t = "bool" -> v.s = "True"
      [] v.t = "str" -> v.x # ""
      [] v.t = "list" -> v.c # <<>>
      [] OTHER -> TRUE

\* bool(v)
PyBool(v) == BoolV(Truthy(v))
\* `a and b`, `a or b` on already evaluated operands
PyNot(v) == BoolV(~Truthy(v))

R(st, v) == [st |-> st, v |-> v]

(***************************************************************************)
(* Token type sets of the Parser class.                                    *)
(***************************************************************************)
TYPE_TOKENS ==
    {"BOOLEAN", "TINYINT", "SMALLINT", "INT", "BIGINT", "FLOAT", "DOUBLE", "CHAR",
     "VARCHAR", "TEXT", "BINARY", "JSON", "TIMESTAMP", "TIMESTAMPTZ", "DATE", "ARRAY",
     "DECIMAL", "MAP"}

AMBIGUOUS_TOKEN_TYPES == {"ARRAY", "DATE", "MAP"}

ID_VAR_TOKENS ==
    {"IDENTIFIER", "VAR", "ALL", "ASC", "COLLATE", "COUNT", "DEFAULT", "DESC", "ENGINE",
     "FOLLOWING", "FORMAT", "IF", "INTERVAL", "ORDINALITY", "OVER", "PRECEDING", "RANGE",
     "ROWS", "SCHEMA_COMMENT", "UNBOUNDED"} \cup TYPE_TOKENS

PRIMARY_TOKENS == {"STRING", "NUMBER", "STAR", "NULL"}

COLUMN_TOKENS == (ID_VAR_TOKENS \cup {"STAR"}) \ {"ARRAY"}

NON_COLUMN_TOKENS == {"COMMA", "R_PAREN", "WHEN"}

CONJUNCTION == [AND |-> "And", OR |-> "Or"]
EQUALITY == [EQ |-> "EQ", NEQ |-> "NEQ", IS |-> "Is"]
COMPARISON == [GT |-> "GT", GTE |-> "GTE", LT |-> "LT", LTE |-> "LTE"]
BITWISE ==
    [LSHIFT |-> "BitwiseLeftShift", RSHIFT |-> "BitwiseRightShift", AMP |-> "BitwiseAnd",
     CARET |-> "BitwiseXor", PIPE |-> "BitwiseOr", DPIPE |-> "DPipe"]
TERM == [DASH |-> "Minus", PLUS |-> "Plus", MOD |-> "Mod"]
FACTOR == [DIV |-> "IntDiv", SLASH |-> "Div", STAR |-> "Mul"]

\* Parser.__init__: error_message_context or 50
error_message_context == 50

ErrorLevels == {"RAISE", "WARN", "IGNORE"}

(***************************************************************************)
(* The expression schema (sqlglot/expressions.py): for every class the     *)
(* slots of arg_types in order, each with its mandatory flag, and the      *)
(* is_var_len_args flag.                                                   *)
(***************************************************************************)
Binary == <<<<"this", TRUE>>, <<"expression", TRUE>>>>
Unary == <<<<"this", TRUE>>>>
Opt(keys) == [i \in 1..Len(keys) |-> <<keys[i], FALSE>>]

BinaryClasses ==
    {"And", "Or", "EQ", "NEQ", "Is", "GT", "GTE", "LT", "LTE", "BitwiseLeftShift",
     "BitwiseRightShift", "BitwiseAnd", "BitwiseXor", "BitwiseOr", "DPipe", "Minus", "Plus",
     "Mod", "IntDiv", "Div", "Mul", "Like", "RegexLike", "Dot", "Extract"}

arg_types(class) ==
    CASE class \in BinaryClasses -> Binary
      [] class \in {"Star", "Null"} -> <<>>
      [] class = "Alias" -> <<<<"this", TRUE>>, <<"alias", FALSE>>>>
      [] class = "Anonymous" -> <<<<"this", TRUE>>, <<"expressions", FALSE>>>>
      [] class = "Array" -> <<<<"expressions", TRUE>>>>
      [] class = "Between" -> <<<<"this", TRUE>>, <<"low", TRUE>>, <<"high", TRUE>>>>
      [] class = "Bracket" -> <<<<"this", TRUE>>, <<"expressions", TRUE>>>>
      [] class = "Case" -> <<<<"this", FALSE>>, <<"ifs", TRUE>>, <<"default", FALSE>>>>
      [] class = "Cast" -> <<<<"this", TRUE>>, <<"to", TRUE>>>>
      [] class = "CharacterSet" -> <<<<"this", TRUE>>, <<"default", FALSE>>>>
      [] class = "Coalesce" -> <<<<"this", TRUE>>, <<"expressions", FALSE>>>>
      [] class = "Column" -> Opt(<<"this", "table", "db", "fields">>)
      [] class = "ColumnDef" ->
            <<<<"this", TRUE>>, <<"kind", TRUE>>>>
                \o Opt(<<"auto_increment", "comment", "collate", "default", "not_null">>)
      [] class = "Count" -> Opt(<<"this", "distinct">>)
      [] class = "Create" ->
            <<<<"this", TRUE>>, <<"kind", TRUE>>>>
                \o Opt(<<"expression", "exists", "file_format", "temporary", "replace",
                         "engine", "auto_increment", "character_set", "collate", "comment">>)
      [] class = "CTE" -> <<<<"this", TRUE>>, <<"expressions", TRUE>>, <<"recursive", FALSE>>>>
      [] class = "Decimal" -> Opt(<<"precision", "scale">>)
      [] class = "Drop" -> Opt(<<"this", "kind", "exists">>)
      [] class \in {"From", "Group", "Order", "Tuple", "Values"} -> <<<<"expressions", TRUE>>>>
      [] class = "Identifier" -> <<<<"this", TRUE>>, <<"quoted", FALSE>>>>
      [] class = "If" -> <<<<"this", TRUE>>, <<"true", TRUE>>, <<"false", FALSE>>>>
      [] class = "In" -> <<<<"this", TRUE>>, <<"expressions", FALSE>>, <<"query", FALSE>>>>
      [] class = "Insert" ->
            <<<<"this", TRUE>>, <<"expression", TRUE>>, <<"overwrite", FALSE>>,
              <<"exists", FALSE>>>>
      [] class = "Interval" -> <<<<"this", TRUE>>, <<"unit", TRUE>>>>
      [] class = "Join" -> <<<<"this", TRUE>>>> \o Opt(<<"on", "side", "kind">>)
      [] class = "Lateral" -> <<<<"this", TRUE>>>> \o Opt(<<"outer", "table", "columns">>)
      [] class = "Literal" -> <<<<"this", TRUE>>, <<"is_string", TRUE>>>>
      [] class = "Ordered" -> <<<<"this", TRUE>>, <<"desc", FALSE>>>>
      [] class = "Schema" -> <<<<"this", TRUE>>, <<"expressions", TRUE>>>>
      [] class = "Select" ->
            <<<<"expressions", TRUE>>>>
                \o Opt(<<"hint", "distinct", "from", "laterals", "joins", "where", "group",
                         "having", "order", "limit">>)
      [] class = "Table" -> <<<<"this", TRUE>>, <<"db", FALSE>>>>
      [] class = "Union" -> <<<<"this", TRUE>>, <<"expression", TRUE>>, <<"distinct", TRUE>>>>
      [] class = "Unnest" ->
            <<<<"expressions", TRUE>>>> \o Opt(<<"ordinality", "table", "columns">>)
      [] class = "Update" -> <<<<"this", TRUE>>, <<"expressions", TRUE>>, <<"where", FALSE>>>>
      [] class = "Window" -> <<<<"this", TRUE>>>> \o Opt(<<"partition", "order", "spec">>)
      [] class = "WindowSpec" -> Opt(<<"kind", "start", "start_side", "end", "end_side">>)
      [] OTHER -> Unary

is_var_len_args(class) == class \in {"Anonymous", "Array", "Coalesce"}

\* Slot names of a schema
SchemaKeys(class) == {arg_types(class)[i][1] : i \in 1..Len(arg_types(class))}

\* expression.args.get(k): the value of the last slot named k, or None
RECURSIVE ArgsGetFrom(_, _, _)
ArgsGetFrom(args, k, i) ==
    IF i = 0 THEN NoneV
    ELSE IF args[i].s = k THEN args[i].c[1] ELSE ArgsGetFrom(args, k, i - 1)
ArgsGet(node, k) == ArgsGetFrom(node.c, k, Len(node.c))

(***************************************************************************)
(* Diagnostics.  A message is the format string with its parameters; a     *)
(* ParseError carries the message, the position of the reference token and *)
(* the three slices of the source that raise_error renders.  Characters of *)
(* the source are kept as one-character strings.                           *)
(***************************************************************************)
Msg(msg, k, cls, n, m) == [msg |-> msg, k |-> k, cls |-> cls, n |-> n, m |-> m]
M(msg) == Msg(msg, "", "", 0, 0)

ParseError(message, token, start_context, highlight, end_context) ==
    [t |-> "ParseError", message |-> message, line |-> token.line, col |-> token.col,
     start_context |-> start_context, highlight |-> highlight, end_context |-> end_context]

NoError ==
    [t |-> "none", message |-> M(""), line |-> 0, col |-> 0,
     start_context |-> <<>>, highlight |-> <<>>, end_context |-> <<>>]

Max(a, b) == IF a > b THEN a ELSE b
Min(a, b) == IF a < b THEN a ELSE b

\* Python's seq[a:b] for a, b >= 0
PySlice(seq, a, b) == SubSeq(seq, Min(a, Len(seq)) + 1, Min(b, Len(seq)))

(***************************************************************************)
(* helper.list_get and the token view.                                     *)
(***************************************************************************)
list_get(arr, index) ==
    IF index < Len(arr)
    THEN IF index >= 0 THEN arr[index + 1] ELSE arr[Len(arr) + index + 1]
    ELSE NoneV

\* Raise an exception of the given type; the first exception is the one that unwinds.
Throw(st, type) == IF st.exc # "" THEN st ELSE [st EXCEPT !.exc = type]

RECURSIVE Call(_, _, _, _)
\* What an advance leaves in the history: the index and the window it set
Window(index, prev, curr, next) == [index |-> index, prev |-> prev, curr |-> curr, next |-> next]

\* _advance taking the token it leaves as the previous one (prev = old curr)
\* instead of reading it from the list: the fault that C11_CursorMovesForward
\* has to detect.
_advance_prev_from_curr(st) ==
    IF st.exc # "" THEN st
    ELSE LET i == st._index + 1
             curr == list_get(st._tokens, i)
             next == list_get(st._tokens, i + 1)
             prev == st._curr
         IN [st EXCEPT !._index = i, !._curr = curr, !._next = next, !._prev = prev,
                       !.advances = @ + 1,
                       !.trail = Append(@, Window(i, prev, curr, next))]

_advance(st) ==
    IF st.exc # "" THEN st
    ELSE LET i == st._index + 1
             curr == list_get(st._tokens, i)
             next == list_get(st._tokens, i + 1)
             prev == IF i > 0 THEN list_get(st._tokens, i - 1) ELSE NoneV
         IN [st EXCEPT !._index = i, !._curr = curr, !._next = next, !._prev = prev,
                       !.advances = @ + 1,
                       !.trail = Append(@, Window(i, prev, curr, next))]

\* What a consumed token leaves in the history: the token that was at the index,
\* who advanced over it, and whether its type was among the types asked for.
Consumed(st, via, allowed) ==
    [via |-> via, type |-> list_get(st._tokens, st._index).s, at |-> st._index,
     allowed |-> allowed]

\* _match advancing over the current token whether or not its type is among
\* the types asked for: the fault that C10_ConsumedByMatchOrColumn has to detect.
_match_any_type(st, types) ==
    IF st.exc # "" \/ ~Truthy(st._curr) THEN R(st, NoneV)
    ELSE LET s1 == Call("_advance", st, NoneV, NoneV)
         IN R([s1 EXCEPT !.consumed =
                   Append(@, Consumed(st, "_match", st._curr.s \in types))],
              s1._prev)

_match(st, types) ==
    IF st.exc # "" \/ ~Truthy(st._curr) THEN R(st, NoneV)
    ELSE IF st._curr.s \in types
         THEN LET s1 == Call("_advance", st, NoneV, NoneV)
              IN R([s1 EXCEPT !.consumed =
                        Append(@, Consumed(st, "_match", st._curr.s \in types))],
                   s1._prev)
         ELSE R(st, NoneV)

(***************************************************************************)
(* The error reporter.                                                     *)
(***************************************************************************)
RECURSIVE find_token_loop(_, _, _, _, _)
find_token_loop(token, code, line, col, index) ==
    IF line < token.line \/ col < token.col
    THEN IF index >= Len(code) THEN -1    \* code[index] raises IndexError
         ELSE IF code[index + 1] = "\n"
              THEN find_token_loop(token, code, line + 1, 1, index + 1)
              ELSE find_token_loop(token, code, line, col + 1, index + 1)
    ELSE index

_find_token(token, code) == find_token_loop(token, code, 1, 1, 0)

\* Token.string(""): the token raise_error falls back to
EmptyStringToken == Token("STRING", "", 1, 1)

\* raise_error with the RAISE branch lost (the error is stored and logged
\* instead of raised): the fault that C1_RaiseAborts has to detect.
raise_error_never_raises(st, message, token) ==
    IF st.exc # "" THEN st
    ELSE LET tok == IF Truthy(token) THEN token
                    ELSE IF Truthy(st._curr) THEN st._curr
                    ELSE IF Truthy(st._prev) THEN st._prev
                    ELSE EmptyStringToken
             start == _find_token(tok, st.code)
             end == start + Len(tok.x)
             error == ParseError(message, tok,
                                 PySlice(st.code, Max(start - error_message_context, 0), start),
                                 PySlice(st.code, start, end),
                                 PySlice(st.code, end, end + error_message_context))
             s1 == [st EXCEPT !.error = error,
                              !.reported = Append(@, [error |-> error, at |-> st._index,
                                                      consumed |-> Len(st.consumed)])]
         IN IF start < 0 THEN Throw(st, "IndexError")
            ELSE IF st.error_level \in {"RAISE", "WARN"}
                 THEN [s1 EXCEPT !.logged = Append(@, error)]
            ELSE s1

\* raise_error returning before it stores the error when the policy is IGNORE:
\* the fault that C8_ErrorSlotKeepsLastReport has to detect.
raise_error_ignore_stores_nothing(st, message, token) ==
    IF st.exc # "" THEN st
    ELSE LET tok == IF Truthy(token) THEN token
                    ELSE IF Truthy(st._curr) THEN st._curr
                    ELSE IF Truthy(st._prev) THEN st._prev
                    ELSE EmptyStringToken
             start == _find_token(tok, st.code)
             end == start + Len(tok.x)
             error == ParseError(message, tok,
                                 PySlice(st.code, Max(start - error_message_context, 0), start),
                                 PySlice(st.code, start, end),
                                 PySlice(st.code, end, end + error_message_context))
             s0 == [st EXCEPT !.reported = Append(@, [error |-> error, at |-> st._index,
                                                      consumed |-> Len(st.consumed)])]
             s1 == [s0 EXCEPT !.error = error]
         IN IF start < 0 THEN Throw(st, "IndexError")
            ELSE IF st.error_level = "RAISE"
                 THEN [Throw(s1, "ParseError") EXCEPT !.raised = error]
            ELSE IF st.error_level = "WARN"
                 THEN [s1 EXCEPT !.logged = Append(@, error)]
            ELSE s0

raise_error(st, message, token) ==
    IF st.exc # "" THEN st
    ELSE LET tok == IF Truthy(token) THEN token
                    ELSE IF Truthy(st._curr) THEN st._curr
                    ELSE IF Truthy(st._prev) THEN st._prev
                    ELSE EmptyStringToken
             start == _find_token(tok, st.code)
             end == start + Len(tok.x)
             error == ParseError(message, tok,
                                 PySlice(st.code, Max(start - error_message_context, 0), start),
                                 PySlice(st.code, start, end),
                                 PySlice(st.code, end, end + error_message_context))
             s1 == [st EXCEPT !.error = error,
                              !.reported = Append(@, [error |-> error, at |-> st._index,
                                                      consumed |-> Len(st.consumed)])]
         IN IF start < 0 THEN Throw(st, "IndexError")
            ELSE IF st.error_level = "RAISE"
                 THEN [Throw(s1, "ParseError") EXCEPT !.raised = error]
            ELSE IF st.error_level = "WARN"
                 THEN [s1 EXCEPT !.logged = Append(@, error)]
            ELSE s1

(***************************************************************************)
(* The node factory and the validator.                                     *)
(***************************************************************************)
\* TOKEN_TO_EXPRESSION and the fallback to the token's text
_ensure_non_token(value) ==
    CASE IsNone(value) \/ ~IsToken(value) -> value
      [] value.s = "STAR" -> Node("Star", <<>>)
      [] value.s = "NULL" -> Node("Null", <<>>)
      [] value.s = "STRING" ->
            Node("Literal", <<Slot("this", StrV(value.x)), Slot("is_string", TrueV)>>)
      [] value.s = "NUMBER" ->
            Node("Literal", <<Slot("this", StrV(value.x)), Slot("is_string", FalseV)>>)
      [] value.s = "IDENTIFIER" ->
            Node("Identifier", <<Slot("this", StrV(value.x)), Slot("quoted", TrueV)>>)
      [] value.s = "VAR" ->
            Node("Identifier", <<Slot("this", StrV(value.x)), Slot("quoted", FalseV)>>)
      [] value.s \in TYPE_TOKENS -> Node("DataType", <<Slot("this", StrV(value.s))>>)
      [] OTHER -> StrV(value.x)

\* [self._ensure_non_token(v) for v in arg]
EnsureItems(items) == [i \in 1..Len(items) |-> _ensure_non_token(items[i])]

\* the dict comprehension of expression(): kwargs is the keyword list, in order
EnsureKwargs(kwargs) ==
    [i \in 1..Len(kwargs) |->
        Slot(kwargs[i][1],
             IF IsList(kwargs[i][2]) THEN ListV(EnsureItems(kwargs[i][2].c))
             ELSE _ensure_non_token(kwargs[i][2]))]

\* `for k in expression.args`: the keys that are not in arg_types, in order
Unexpected(node) ==
    LET keys == [i \in 1..Len(node.c) |-> node.c[i].s]
        Unknown(k) == k \notin SchemaKeys(node.s)
    IN SelectSeq(keys, Unknown)

\* Missing with the empty string taken for an empty value (`not v` in place
\* of `v is None or v == []`): the fault that C3_ExpressionRaisesIff has to detect.
Missing_by_falsiness(node) ==
    LET keys == [i \in 1..Len(arg_types(node.s)) |-> arg_types(node.s)[i][1]]
        Empty(k) ==
            /\ \E i \in 1..Len(arg_types(node.s)) :
                   arg_types(node.s)[i][1] = k /\ arg_types(node.s)[i][2]
            /\ ~Truthy(ArgsGet(node, k))
    IN SelectSeq(keys, Empty)

\* `for k, mandatory in expression.arg_types.items()`: the mandatory keys
\* whose value is None or [], in order
Missing(node) ==
    LET keys == [i \in 1..Len(arg_types(node.s)) |-> arg_types(node.s)[i][1]]
        Empty(k) ==
            LET v == ArgsGet(node, k)
            IN /\ \E i \in 1..Len(arg_types(node.s)) :
                      arg_types(node.s)[i][1] = k /\ arg_types(node.s)[i][2]
               /\ (IsNone(v) \/ (IsList(v) /\ v.c = <<>>))
    IN SelectSeq(keys, Empty)

\* The calls of raise_error that the two loops of validate_expression make
RECURSIVE ReportAll(_, _, _, _, _)
ReportAll(st, msg, keys, class, i) ==
    LET s1 == Call("raise_error", st, Msg(msg, keys[i], class, 0, 0), NoneV)
    IN CASE i > Len(keys) -> st
         [] s1.exc # "" -> s1
         [] OTHER -> ReportAll(s1, msg, keys, class, i + 1)

\* validate_expression with its first test inverted (it returns at once unless
\* the policy is IGNORE): the fault that C6_ValidUnderRaise has to detect.
validate_expression_inverted_test(st, node) ==
    LET s1 == ReportAll(st, "Unexpected keyword: '{k}' for {class}", Unexpected(node),
                        node.s, 1)
    IN CASE st.error_level # "IGNORE" -> st
         [] s1.exc # "" -> s1
         [] OTHER -> ReportAll(s1, "Required keyword: '{k}' missing for {class}",
                               Missing(node), node.s, 1)

validate_expression(st, node) ==
    LET s1 == ReportAll(st, "Unexpected keyword: '{k}' for {class}", Unexpected(node),
                        node.s, 1)
    IN CASE st.error_level = "IGNORE" -> st
         [] s1.exc # "" -> s1
         [] OTHER -> ReportAll(s1, "Required keyword: '{k}' missing for {class}",
                               Missing(node), node.s, 1)

expression(st, class, kwargs) ==
    LET instance == Node(class, EnsureKwargs(kwargs))
        s1 == Call("validate_expression", st, instance, NoneV)
    IN CASE st.exc # "" -> R(st, NoneV)
         [] s1.exc # "" -> R(s1, NoneV)
         [] OTHER -> R(s1, instance)

\* The state in which another pass of a `while` loop begins, the pass before
\* having begun at index `from`.  A pass that consumed no token leaves the
\* parser where it was, so the loop would repeat it for ever: such a run ends
\* here with "Diverges" in place of an exception.
Iterate(st, from) ==
    IF st.exc = "" /\ st._index <= from THEN [st EXCEPT !.exc = "Diverges"] ELSE st

\* The test of the `while` of an option loop after a pass: the index the pass
\* began at, the index it ended at, and whether another pass follows
Round(st, loop, from, again) ==
    IF st.exc # "" THEN st
    ELSE [st EXCEPT !.rounds = Append(@, [loop |-> loop, from |-> from, to |-> st._index,
                                          again |-> again])]

\* `if not <matched>: self.raise_error(message, token)`: the parser after it
Expect(m, message, token) ==
    IF Truthy(m.v) THEN m.st ELSE Call("raise_error", m.st, message, token)

\* the same with token=self._prev
ExpectPrev(m, message) ==
    IF Truthy(m.v) THEN m.st ELSE Call("raise_error", m.st, message, m.st._prev)

\* `<matched> and self.<name>(a, b)`, `if <matched>: x = self.<name>(a, b)`
AndThen(m, name, a, b) == IF Truthy(m.v) THEN Call(name, m.st, a, b) ELSE m


(***************************************************************************)
(* The function registry: Parser.FUNCTIONS, keyed by the uppercased name.  *)
(* A value is the class whose from_arg_list builds the node, "_parse_decimal" *)
(* for the two aliases, or "" when the name is not registered.             *)
(***************************************************************************)
\* str.upper() on the texts the model's tokens carry
Upper(text) ==
    CASE text = "if" -> "IF"
      [] text = "coalesce" -> "COALESCE"
      [] text = "decimal" -> "DECIMAL"
      [] text = "f" -> "F"
      [] OTHER -> text

functions(name) ==
    CASE name = "IF" -> "If"
      [] name = "COALESCE" -> "Coalesce"
      [] name \in {"DECIMAL", "NUMERIC"} -> "_parse_decimal"
      [] OTHER -> ""

\* Func.from_arg_list: the arguments fill the schema's slots in order; a
\* variable-arity class takes the remaining arguments as a list in its last slot.
RECURSIVE ArgsDict(_, _, _)
ArgsDict(keys, args, i) ==
    IF i > Len(keys) \/ i > Len(args) THEN <<>>
    ELSE (IF IsNone(args[i]) THEN <<>> ELSE <<Slot(keys[i][1], args[i])>>)
             \o ArgsDict(keys, args, i + 1)

from_arg_list(class, args) ==
    LET all == arg_types(class)
        fixed == IF is_var_len_args(class) THEN SubSeq(all, 1, Len(all) - 1) ELSE all
        n == Min(Len(fixed), Len(args))
        rest == IF n < Len(args) /\ is_var_len_args(class)
                THEN <<Slot(all[Len(all)][1], ListV(SubSeq(args, n + 1, Len(args))))>>
                ELSE <<>>
    IN Node(class, ArgsDict(fixed, args, 1) \o rest)

_parse_decimal(args) ==
    LET size == Len(args)
        precision == IF size > 0 THEN args[1] ELSE NoneV
        scale == IF size > 1 THEN args[2] ELSE NoneV
    IN Node("Decimal", <<Slot("precision", precision), Slot("scale", scale)>>)

(***************************************************************************)
(* The grammar driver.  A parse routine passed as an argument (to          *)
(* _parse_csv and _parse_tokens) is named by a string and invoked by Call. *)
(***************************************************************************)
RECURSIVE ParseChunkResult(_, _)
RECURSIVE _parse_statement(_)
RECURSIVE _parse_drop(_)
RECURSIVE _parse_exists(_, _)
RECURSIVE _parse_create(_)
RECURSIVE CreateOptions(_, _, _, _)
RECURSIVE _parse_insert(_)
RECURSIVE _parse_update(_)
RECURSIVE _parse_values(_)
RECURSIVE _parse_value(_)
RECURSIVE _parse_cte(_)
RECURSIVE CteLoop(_, _)
RECURSIVE _parse_select(_)
RECURSIVE _parse_hint(_)
RECURSIVE _parse_from(_)
RECURSIVE _parse_laterals(_)
RECURSIVE LateralsLoop(_, _, _, _)
RECURSIVE _parse_joins(_)
RECURSIVE JoinsLoop(_, _)
RECURSIVE _parse_table(_, _, _)
RECURSIVE _parse_unnest(_)
RECURSIVE _parse_where(_)
RECURSIVE _parse_group(_)
RECURSIVE _parse_having(_)
RECURSIVE _parse_order(_)
RECURSIVE _parse_ordered(_)
RECURSIVE _parse_limit(_)
RECURSIVE _parse_union(_, _)
RECURSIVE _parse_expression(_)
RECURSIVE _parse_conjunction(_)
RECURSIVE _parse_equality(_)
RECURSIVE _parse_comparison(_)
RECURSIVE _parse_range(_)
RECURSIVE _parse_bitwise(_)
RECURSIVE _parse_term(_)
RECURSIVE _parse_factor(_)
RECURSIVE _parse_unary(_)
RECURSIVE _parse_type(_)
RECURSIVE _parse_types(_)
RECURSIVE _parse_column_def(_, _)
RECURSIVE ColumnDefOptions(_, _, _)
RECURSIVE _parse_primary(_)
RECURSIVE _parse_column(_)
RECURSIVE ColumnLoop(_, _, _, _, _)
RECURSIVE _parse_function(_, _, _)
RECURSIVE _parse_case(_)
RECURSIVE CaseLoop(_, _)
RECURSIVE _parse_count(_)
RECURSIVE _parse_extract(_)
RECURSIVE _parse_cast(_)
RECURSIVE _parse_window(_, _)
RECURSIVE _parse_window_spec(_)
RECURSIVE _parse_brackets(_, _)
RECURSIVE _parse_dot(_, _)
RECURSIVE _parse_alias(_, _)
RECURSIVE _parse_id_var(_)
RECURSIVE _parse_csv(_, _)
RECURSIVE CsvLoop(_, _, _)
RECURSIVE _parse_tokens(_, _, _)
RECURSIVE TokensLoop(_, _, _, _)

\* Every call of a grammar routine goes through Call: Call(name, st, a, b) is
\* self.<name>(a, b) on the parser st, with a and b the routine's arguments
\* after self (None where it takes fewer).  A parse method passed to
\* _parse_csv or _parse_tokens is invoked without arguments, and then
\* _parse_table takes its defaults alias=False, schema=False.
Call(name, st, a, b) ==
    CASE name = "ParseChunkResult" -> ParseChunkResult(st, a)
      [] name = "_parse_statement" -> _parse_statement(st)
      [] name = "_parse_drop" -> _parse_drop(st)
      [] name = "_parse_exists" -> _parse_exists(st, a)
      [] name = "_parse_create" -> _parse_create(st)
      [] name = "_parse_insert" -> _parse_insert(st)
      [] name = "_parse_update" -> _parse_update(st)
      [] name = "_parse_values" -> _parse_values(st)
      [] name = "_parse_value" -> _parse_value(st)
      [] name = "_parse_cte" -> _parse_cte(st)
      [] name = "_parse_select" -> _parse_select(st)
      [] name = "_parse_hint" -> _parse_hint(st)
      [] name = "_parse_from" -> _parse_from(st)
      [] name = "_parse_laterals" -> _parse_laterals(st)
      [] name = "_parse_joins" -> _parse_joins(st)
      [] name = "_parse_table" -> _parse_table(st, a, b)
      [] name = "_parse_unnest" -> _parse_unnest(st)
      [] name = "_parse_where" -> _parse_where(st)
      [] name = "_parse_group" -> _parse_group(st)
      [] name = "_parse_having" -> _parse_having(st)
      [] name = "_parse_order" -> _parse_order(st)
      [] name = "_parse_ordered" -> _parse_ordered(st)
      [] name = "_parse_limit" -> _parse_limit(st)
      [] name = "_parse_union" -> _parse_union(st, a)
      [] name = "_parse_expression" -> _parse_expression(st)
      [] name = "_parse_conjunction" -> _parse_conjunction(st)
      [] name = "_parse_equality" -> _parse_equality(st)
      [] name = "_parse_comparison" -> _parse_comparison(st)
      [] name = "_parse_range" -> _parse_range(st)
      [] name = "_parse_bitwise" -> _parse_bitwise(st)
      [] name = "_parse_term" -> _parse_term(st)
      [] name = "_parse_factor" -> _parse_factor(st)
      [] name = "_parse_unary" -> _parse_unary(st)
      [] name = "_parse_type" -> _parse_type(st)
      [] name = "_parse_types" -> _parse_types(st)
      [] name = "_parse_column_def" -> _parse_column_def(st, a)
      [] name = "_parse_primary" -> _parse_primary(st)
      [] name = "_parse_column" -> _parse_column(st)
      [] name = "_parse_function" -> _parse_function(st, a, b)
      [] name = "_parse_case" -> _parse_case(st)
      [] name = "_parse_count" -> _parse_count(st)
      [] name = "_parse_extract" -> _parse_extract(st)
      [] name = "_parse_cast" -> _parse_cast(st)
      [] name = "_parse_window" -> _parse_window(st, a)
      [] name = "_parse_window_spec" -> _parse_window_spec(st)
      [] name = "_parse_brackets" -> _parse_brackets(st, a)
      [] name = "_parse_dot" -> _parse_dot(st, a)
      [] name = "_parse_alias" -> _parse_alias(st, a)
      [] name = "_parse_id_var" -> _parse_id_var(st)
      [] name = "raise_error" -> raise_error(st, a, b)
      [] name = "expression" -> expression(st, a, b)
      [] name = "validate_expression" -> validate_expression(st, a)
      [] name = "_match" -> _match(st, a)
      [] name = "_advance" -> _advance(st)
\* A routine is a LET of its steps in program order and a CASE that goes
\* through them in that order: an arm `r.st.exc # ""` is the exception of a
\* step leaving the routine, any other arm before OTHER is an early return.
_parse_statement(st) ==
    LET create == Call("_match", st, {"CREATE"}, NoneV)
        drop == Call("_match", create.st, {"DROP"}, NoneV)
        insert == Call("_match", drop.st, {"INSERT"}, NoneV)
        update == Call("_match", insert.st, {"UPDATE"}, NoneV)
        cte == Call("_parse_cte", update.st, NoneV, NoneV)
    IN CASE IsNone(st._curr) -> R(st, NoneV)
         [] Truthy(create.v) -> Call("_parse_create", create.st, NoneV, NoneV)
         [] Truthy(drop.v) -> Call("_parse_drop", drop.st, NoneV, NoneV)
         [] Truthy(insert.v) -> Call("_parse_insert", insert.st, NoneV, NoneV)
         [] Truthy(update.v) -> Call("_parse_update", update.st, NoneV, NoneV)
         [] cte.st.exc # "" -> R(cte.st, NoneV)
         [] Truthy(cte.v) -> cte
         [] OTHER -> Call("_parse_expression", cte.st, NoneV, NoneV)

\* `kind` is bound only on the two matching branches; reading it unbound
\* raises UnboundLocalError, after the arguments before it are evaluated.
_parse_drop(st) ==
    LET table == Call("_match", st, {"TABLE"}, NoneV)
        view == Call("_match", table.st, {"VIEW"}, NoneV)
        bound == Truthy(table.v) \/ Truthy(view.v)
        kind == IF Truthy(table.v) THEN StrV("table") ELSE StrV("view")
        s1 == IF Truthy(table.v) THEN table.st
              ELSE IF Truthy(view.v) THEN view.st
              ELSE Call("raise_error", view.st, M("Expected TABLE or View"), NoneV)
        exists == Call("_parse_exists", s1, FALSE, NoneV)
        this == Call("_parse_table", exists.st, NoneV, FALSE)
    IN CASE s1.exc # "" -> R(s1, NoneV)
         [] exists.st.exc # "" -> R(exists.st, NoneV)
         [] this.st.exc # "" -> R(this.st, NoneV)
         [] ~bound -> R(Throw(this.st, "UnboundLocalError"), NoneV)
         [] OTHER -> Call("expression", this.st, "Drop", <<<<"exists", exists.v>>, <<"this", this.v>>, <<"kind", kind>>>>)

_parse_exists(st, not_) ==
    LET if == Call("_match", st, {"IF"}, NoneV)
        not == IF not_ THEN Call("_match", if.st, {"NOT"}, NoneV) ELSE R(if.st, TrueV)
    IN CASE ~Truthy(if.v) -> if
         [] ~Truthy(not.v) -> not
         [] OTHER -> Call("_match", not.st, {"EXISTS"}, NoneV)

\* parse_option(option, token, option_lambda) of _parse_create, for the four
\* options whose lambda is a match of one token type
CreateOption(st, option, token, lambda) ==
    LET m == Call("_match", st, {token}, NoneV)
        eq == Call("_match", m.st, {"EQ"}, NoneV)
        val == Call("_match", eq.st, {lambda}, NoneV)
    IN CASE Truthy(option) -> [st |-> st, v |-> option, parsed |-> FALSE]
         [] ~Truthy(m.v) -> [st |-> m.st, v |-> option, parsed |-> FALSE]
         [] OTHER -> [st |-> val.st, v |-> val.v, parsed |-> TRUE]

\* The `if not options["character_set"]` block of the loop
CharacterSetOption(st, option) ==
    LET default == Call("_match", st, {"DEFAULT"}, NoneV)
        cs == Call("_match", default.st, {"CHARACTER_SET"}, NoneV)
        eq == Call("_match", cs.st, {"EQ"}, NoneV)
        var == Call("_match", eq.st, {"VAR"}, NoneV)
        node == Call("expression", var.st, "CharacterSet",
                     <<<<"this", var.v>>, <<"default", PyBool(default.v)>>>>)
    IN CASE Truthy(option) -> [st |-> st, v |-> option, parsed |-> FALSE]
         [] ~Truthy(cs.v) -> [st |-> cs.st, v |-> option, parsed |-> FALSE]
         [] OTHER -> [st |-> node.st, v |-> node.v, parsed |-> TRUE]

\* The `while options["parsed"]` loop of _parse_create
\* the test of the `while` after a pass that began at index `from`
CreateOptionsAgain(st, from, options, parsed, passes) ==
    CreateOptions(Round(IF parsed THEN Iterate(st, from) ELSE st, "_parse_create", from, parsed),
                  options, parsed, passes)

CreateOptions(st, options, parsed, passes) ==
    LET engine == CreateOption(st, options.engine, "ENGINE", "VAR")
        auto_increment ==
            CreateOption(engine.st, options.auto_increment, "AUTO_INCREMENT", "NUMBER")
        collate == CreateOption(auto_increment.st, options.collate, "COLLATE", "VAR")
        comment == CreateOption(collate.st, options.comment, "SCHEMA_COMMENT", "STRING")
        character_set == CharacterSetOption(comment.st, options.character_set)
    IN CASE ~parsed -> [st |-> st, v |-> options, passes |-> passes]
         [] character_set.st.exc # "" ->
                [st |-> character_set.st, v |-> options, passes |-> passes + 1]
         [] OTHER ->
                CreateOptionsAgain(
                    character_set.st, st._index,
                    [engine |-> engine.v, auto_increment |-> auto_increment.v,
                     character_set |-> character_set.v, collate |-> collate.v,
                     comment |-> comment.v],
                    engine.parsed \/ auto_increment.parsed \/ collate.parsed
                        \/ comment.parsed \/ character_set.parsed,
                    passes + 1)

\* The `if create_token.token_type == TokenType.TABLE` block of _parse_create;
\* create_token.token_type on None raises AttributeError
CreateFileFormat(st, create_token) ==
    LET stored == Call("_match", st, {"STORED"}, NoneV)
        as == Call("_match", stored.st, {"ALIAS"}, NoneV)
        id == Call("_parse_id_var", as.st, NoneV, NoneV)
        with == Call("_match", stored.st, {"WITH"}, NoneV)
        lp == Call("_match", with.st, {"L_PAREN"}, NoneV)
        fmt == Call("_match", lp.st, {"FORMAT"}, NoneV)
        eq == Call("_match", fmt.st, {"EQ"}, NoneV)
        primary == Call("_parse_primary", eq.st, NoneV, NoneV)
        ff == Call("expression", primary.st, "FileFormat", <<<<"this", primary.v>>>>)
        rp == Call("_match", ff.st, {"R_PAREN"}, NoneV)
    IN CASE st.exc # "" -> R(st, NoneV)
         [] IsNone(create_token) -> R(Throw(st, "AttributeError"), NoneV)
         [] create_token.s # "TABLE" -> R(st, NoneV)
         [] Truthy(stored.v) ->
                Call("expression", id.st, "FileFormat", <<<<"this", id.v>>>>)
         [] ~Truthy(with.v) -> R(with.st, NoneV)
         [] primary.st.exc # "" -> R(primary.st, NoneV)
         [] ff.st.exc # "" -> R(ff.st, NoneV)
         [] OTHER -> R(Expect(rp, M("Expected ) after format"), NoneV), ff.v)

\* **options of the call that builds the Create node
OptionSlots(options) ==
    <<<<"engine", options.engine>>, <<"auto_increment", options.auto_increment>>,
      <<"character_set", options.character_set>>, <<"collate", options.collate>>,
      <<"comment", options.comment>>>>

_parse_create(st) ==
    LET temporary == Call("_match", st, {"TEMPORARY"}, NoneV)
        or == Call("_match", temporary.st, {"OR"}, NoneV)
        replace == AndThen(or, "_match", {"REPLACE"}, NoneV)
        create_token == Call("_match", replace.st, {"TABLE", "VIEW"}, NoneV)
        s1 == Expect(create_token, M("Expected TABLE or View"), NoneV)
        exists == Call("_parse_exists", s1, TRUE, NoneV)
        this == Call("_parse_table", exists.st, NoneV, TRUE)
        file_format == CreateFileFormat(this.st, create_token.v)
        as == Call("_match", file_format.st, {"ALIAS"}, NoneV)
        select == AndThen(as, "_parse_select", NoneV, NoneV)
        options == CreateOptions(select.st,
                                 [engine |-> NoneV, auto_increment |-> NoneV,
                                  character_set |-> NoneV, collate |-> NoneV,
                                  comment |-> NoneV],
                                 TRUE, 0)
    IN CASE s1.exc # "" -> R(s1, NoneV)
         [] exists.st.exc # "" -> R(exists.st, NoneV)
         [] this.st.exc # "" -> R(this.st, NoneV)
         [] file_format.st.exc # "" -> R(file_format.st, NoneV)
         [] select.st.exc # "" -> R(select.st, NoneV)
         [] options.st.exc # "" -> R(options.st, NoneV)
         [] OTHER ->
                Call("expression", options.st, "Create",
                     <<<<"this", this.v>>, <<"kind", create_token.v>>,
                       <<"expression", select.v>>, <<"exists", exists.v>>,
                       <<"file_format", file_format.v>>,
                       <<"temporary", PyBool(temporary.v)>>,
                       <<"replace", PyBool(replace.v)>>>> \o OptionSlots(options.v))

_parse_insert(st) ==
    LET overwrite == Call("_match", st, {"OVERWRITE"}, NoneV)
        into == Call("_match", overwrite.st, {"INTO"}, NoneV)
        table == Call("_match", into.st, {"TABLE"}, NoneV)
        this == Call("_parse_table", table.st, NoneV, FALSE)
        exists == Call("_parse_exists", this.st, FALSE, NoneV)
        select == Call("_parse_select", exists.st, NoneV, NoneV)
    IN CASE table.st.exc # "" -> R(table.st, NoneV)
         [] this.st.exc # "" -> R(this.st, NoneV)
         [] exists.st.exc # "" -> R(exists.st, NoneV)
         [] select.st.exc # "" -> R(select.st, NoneV)
         [] OTHER ->
                Call("expression", select.st, "Insert", <<<<"this", this.v>>, <<"exists", PyBool(exists.v)>>, <<"expression", select.v>>, <<"overwrite", PyBool(overwrite.v)>>>>)

_parse_update(st) ==
    LET this == Call("_parse_table", st, NoneV, FALSE)
        set == Call("_match", this.st, {"SET"}, NoneV)
        csv == IF Truthy(set.v)
               THEN LET l == _parse_csv(set.st, "_parse_equality") IN R(l.st, ListV(l.v))
               ELSE set
        where == Call("_parse_where", csv.st, NoneV, NoneV)
    IN CASE this.st.exc # "" -> R(this.st, NoneV)
         [] csv.st.exc # "" -> R(csv.st, NoneV)
         [] where.st.exc # "" -> R(where.st, NoneV)
         [] OTHER ->
                Call("expression", where.st, "Update", <<<<"this", this.v>>, <<"expressions", csv.v>>, <<"where", where.v>>>>)

_parse_values(st) ==
    LET values == Call("_match", st, {"VALUES"}, NoneV)
        csv == _parse_csv(values.st, "_parse_value")
    IN CASE ~Truthy(values.v) -> R(values.st, NoneV)
         [] csv.st.exc # "" -> R(csv.st, NoneV)
         [] OTHER -> Call("expression", csv.st, "Values", <<<<"expressions", ListV(csv.v)>>>>)

_parse_value(st) ==
    LET lp == Call("_match", st, {"L_PAREN"}, NoneV)
        s1 == Expect(lp, M("Expected ( for values"), NoneV)
        csv == _parse_csv(s1, "_parse_conjunction")
        rp == Call("_match", csv.st, {"R_PAREN"}, NoneV)
        s2 == Expect(rp, M("Expected ) for values"), NoneV)
    IN CASE s1.exc # "" -> R(s1, NoneV)
         [] csv.st.exc # "" -> R(csv.st, NoneV)
         [] s2.exc # "" -> R(s2, NoneV)
         [] OTHER -> Call("expression", s2, "Tuple", <<<<"expressions", ListV(csv.v)>>>>)

\* The `while True` loop of _parse_cte; `recursive` is the value of the last pass.
CteLoop(st, tables) ==
    LET recursive == Call("_match", st, {"RECURSIVE"}, NoneV)
        name == Call("_match", recursive.st, {"IDENTIFIER", "VAR"}, NoneV)
        alias == Call("_parse_function", name.st, name.v, FALSE)
        s1 == Expect(alias, M("Expected alias after WITH"), NoneV)
        as == Call("_match", s1, {"ALIAS"}, NoneV)
        s2 == Expect(as, M("Expected AS after WITH"), NoneV)
        table == Call("_parse_table", s2, alias.v, FALSE)
        comma == Call("_match", table.st, {"COMMA"}, NoneV)
    IN CASE name.st.exc # "" -> [st |-> name.st, v |-> tables, recursive |-> NoneV]
         [] alias.st.exc # "" -> [st |-> alias.st, v |-> tables, recursive |-> recursive.v]
         [] s1.exc # "" -> [st |-> s1, v |-> tables, recursive |-> recursive.v]
         [] s2.exc # "" -> [st |-> s2, v |-> tables, recursive |-> recursive.v]
         [] table.st.exc # "" -> [st |-> table.st, v |-> tables, recursive |-> recursive.v]
         [] ~Truthy(comma.v) ->
                [st |-> comma.st, v |-> Append(tables, table.v), recursive |-> recursive.v]
         [] OTHER -> CteLoop(Iterate(comma.st, st._index), Append(tables, table.v))

_parse_cte(st) ==
    LET with == Call("_match", st, {"WITH"}, NoneV)
        loop == CteLoop(with.st, <<>>)
        select == Call("_parse_select", loop.st, NoneV, NoneV)
    IN CASE ~Truthy(with.v) -> Call("_parse_select", with.st, NoneV, NoneV)
         [] loop.st.exc # "" -> R(loop.st, NoneV)
         [] select.st.exc # "" -> R(select.st, NoneV)
         [] OTHER ->
                Call("expression", select.st, "CTE", <<<<"this", select.v>>, <<"expressions", ListV(loop.v)>>, <<"recursive", PyBool(loop.recursive)>>>>)

_parse_select(st) ==
    LET select == Call("_match", st, {"SELECT"}, NoneV)
        hint == Call("_parse_hint", select.st, NoneV, NoneV)
        distinct == Call("_match", hint.st, {"DISTINCT"}, NoneV)
        expressions_ == _parse_csv(distinct.st, "_parse_expression")
        from == Call("_parse_from", expressions_.st, NoneV, NoneV)
        laterals == Call("_parse_laterals", from.st, NoneV, NoneV)
        joins == Call("_parse_joins", laterals.st, NoneV, NoneV)
        where == Call("_parse_where", joins.st, NoneV, NoneV)
        group == Call("_parse_group", where.st, NoneV, NoneV)
        having == Call("_parse_having", group.st, NoneV, NoneV)
        order == Call("_parse_order", having.st, NoneV, NoneV)
        limit == Call("_parse_limit", order.st, NoneV, NoneV)
        this == Call("expression", limit.st, "Select", <<<<"hint", hint.v>>, <<"distinct", PyBool(distinct.v)>>, <<"expressions", ListV(expressions_.v)>>, <<"from", from.v>>, <<"laterals", laterals.v>>, <<"joins", joins.v>>, <<"where", where.v>>, <<"group", group.v>>, <<"having", having.v>>, <<"order", order.v>>, <<"limit", limit.v>>>>)
        values == Call("_parse_values", select.st, NoneV, NoneV)
    IN CASE ~Truthy(select.v) /\ values.st.exc # "" -> R(values.st, NoneV)
         [] ~Truthy(select.v) -> Call("_parse_union", values.st, values.v, NoneV)
         [] hint.st.exc # "" -> R(hint.st, NoneV)
         [] expressions_.st.exc # "" -> R(expressions_.st, NoneV)
         [] from.st.exc # "" -> R(from.st, NoneV)
         [] laterals.st.exc # "" -> R(laterals.st, NoneV)
         [] joins.st.exc # "" -> R(joins.st, NoneV)
         [] where.st.exc # "" -> R(where.st, NoneV)
         [] group.st.exc # "" -> R(group.st, NoneV)
         [] having.st.exc # "" -> R(having.st, NoneV)
         [] order.st.exc # "" -> R(order.st, NoneV)
         [] limit.st.exc # "" -> R(limit.st, NoneV)
         [] this.st.exc # "" -> R(this.st, NoneV)
         [] OTHER -> Call("_parse_union", this.st, this.v, NoneV)

_parse_hint(st) ==
    LET h == Call("_match", st, {"HINT"}, NoneV)
        hint == Call("_parse_primary", h.st, NoneV, NoneV)
        end == Call("_match", hint.st, {"COMMENT_END"}, NoneV)
        s1 == Expect(end, M("Expected */ after HINT"), NoneV)
    IN CASE ~Truthy(h.v) -> R(h.st, NoneV)
         [] hint.st.exc # "" -> R(hint.st, NoneV)
         [] s1.exc # "" -> R(s1, NoneV)
         [] OTHER -> Call("expression", s1, "Hint", <<<<"this", hint.v>>>>)

_parse_from(st) ==
    LET from == Call("_match", st, {"FROM"}, NoneV)
        csv == _parse_csv(from.st, "_parse_table")
    IN CASE ~Truthy(from.v) -> R(from.st, NoneV)
         [] csv.st.exc # "" -> R(csv.st, NoneV)
         [] OTHER -> Call("expression", csv.st, "From", <<<<"expressions", ListV(csv.v)>>>>)

\* The `while True` loop of _parse_laterals.  `columns` is a local variable
\* that is assigned only when AS matched: `bound` tells whether it holds a
\* value (possibly that of an earlier pass); reading it unbound raises
\* UnboundLocalError after the Table node of the same call is built.
LateralsLoop(st, laterals, columns, bound) ==
    LET lateral == Call("_match", st, {"LATERAL"}, NoneV)
        view == Call("_match", lateral.st, {"VIEW"}, NoneV)
        s1 == Expect(view, M("Expected VIEW afteral LATERAL"), NoneV)
        outer == Call("_match", s1, {"OUTER"}, NoneV)
        this == Call("_parse_primary", outer.st, NoneV, NoneV)
        table == Call("_parse_id_var", this.st, NoneV, NoneV)
        as == Call("_match", table.st, {"ALIAS"}, NoneV)
        csv == IF Truthy(as.v) THEN _parse_csv(as.st, "_parse_id_var") ELSE R(as.st, columns)
        nowbound == bound \/ Truthy(as.v)
        tnode == Call("expression", csv.st, "Table", <<<<"this", table.v>>>>)
        node == IF nowbound
                THEN Call("expression", tnode.st, "Lateral", <<<<"this", this.v>>, <<"outer", PyBool(outer.v)>>, <<"table", tnode.v>>, <<"columns", ListV(csv.v)>>>>)
                ELSE R(Throw(tnode.st, "UnboundLocalError"), NoneV)
    IN CASE ~Truthy(lateral.v) -> R(lateral.st, laterals)
         [] s1.exc # "" -> R(s1, laterals)
         [] this.st.exc # "" -> R(this.st, laterals)
         [] csv.st.exc # "" -> R(csv.st, laterals)
         [] tnode.st.exc # "" -> R(tnode.st, laterals)
         [] node.st.exc # "" -> R(node.st, laterals)
         [] OTHER ->
                LateralsLoop(Iterate(node.st, st._index), Append(laterals, node.v), csv.v,
                             nowbound)

_parse_laterals(st) ==
    LET l == LateralsLoop(st, <<>>, <<>>, FALSE) IN R(l.st, ListV(l.v))

JoinsLoop(st, joins) ==
    LET side == Call("_match", st, {"LEFT", "RIGHT", "FULL"}, NoneV)
        kind == Call("_match", side.st, {"INNER", "OUTER", "CROSS"}, NoneV)
        join == Call("_match", kind.st, {"JOIN"}, NoneV)
        this == Call("_parse_table", join.st, FalseV, FALSE)
        on == Call("_match", this.st, {"ON"}, NoneV)
        cond == AndThen(on, "_parse_conjunction", NoneV, NoneV)
        node == Call("expression", cond.st, "Join", <<<<"this", this.v>>, <<"side", IF Truthy(side.v) THEN StrV(side.v.x) ELSE NoneV>>, <<"kind", IF Truthy(kind.v) THEN StrV(kind.v.x) ELSE NoneV>>, <<"on", cond.v>>>>)
    IN CASE ~Truthy(join.v) -> R(join.st, joins)
         [] this.st.exc # "" -> R(this.st, joins)
         [] cond.st.exc # "" -> R(cond.st, joins)
         [] node.st.exc # "" -> R(node.st, joins)
         [] OTHER -> JoinsLoop(Iterate(node.st, st._index), Append(joins, node.v))

_parse_joins(st) ==
    LET l == JoinsLoop(st, <<>>) IN R(l.st, ListV(l.v))

\* alias: None, False (the default) or the alias parsed by _parse_cte
_parse_table(st, alias, schema) ==
    LET unnest == Call("_parse_unnest", st, NoneV, NoneV)
        lp == Call("_match", unnest.st, {"L_PAREN"}, NoneV)
        expr ==
            CASE Truthy(lp.v) ->
                    LET cte == Call("_parse_cte", lp.st, NoneV, NoneV)
                        rp == Call("_match", cte.st, {"R_PAREN"}, NoneV)
                    IN CASE cte.st.exc # "" -> R(cte.st, NoneV)
                         [] ~Truthy(rp.v) ->
                                R(Call("raise_error", rp.st, M("Expecting )"), NoneV), cte.v)
                         [] OTHER -> R(rp.st, cte.v)
              [] OTHER ->
                    LET name == Call("_match", lp.st, {"VAR", "IDENTIFIER"}, NoneV)
                        table == Call("_parse_function", name.st, name.v, schema)
                        dot == Call("_match", table.st, {"DOT"}, NoneV)
                        name2 == Call("_match", dot.st, {"VAR", "IDENTIFIER"}, NoneV)
                        s1 == Expect(name2, M("Expected table name"), NoneV)
                    IN CASE name.st.exc # "" -> R(name.st, NoneV)
                         [] table.st.exc # "" -> R(table.st, NoneV)
                         [] ~Truthy(dot.v) ->
                                Call("expression", dot.st, "Table", <<<<"this", table.v>>, <<"db", NoneV>>>>)
                         [] s1.exc # "" -> R(s1, NoneV)
                         [] OTHER ->
                                Call("expression", s1, "Table", <<<<"this", s1._prev>>, <<"db", table.v>>>>)
        this == CASE IsNone(alias) -> expr
                  [] Truthy(alias) ->
                        Call("expression", expr.st, "Alias", <<<<"this", expr.v>>, <<"alias", alias>>>>)
                  [] OTHER -> Call("_parse_alias", expr.st, expr.v, NoneV)
    IN CASE unnest.st.exc # "" -> R(unnest.st, NoneV)
         [] Truthy(unnest.v) -> unnest
         [] expr.st.exc # "" -> R(expr.st, NoneV)
         [] this.st.exc # "" -> R(this.st, NoneV)
         [] ~(IsNode(this.v) /\ this.v.s \in {"Alias", "Table"}) ->
                Call("expression", this.st, "Alias", <<<<"this", this.v>>, <<"alias", NoneV>>>>)
         [] OTHER -> this

_parse_unnest(st) ==
    LET unnest == Call("_match", st, {"UNNEST"}, NoneV)
        lp == Call("_match", unnest.st, {"L_PAREN"}, NoneV)
        s1 == Expect(lp, M("Expecting ( after unnest"), NoneV)
        expressions_ == _parse_csv(s1, "_parse_id_var")
        rp == Call("_match", expressions_.st, {"R_PAREN"}, NoneV)
        s2 == Expect(rp, M("Expecting )"), NoneV)
        with == Call("_match", s2, {"WITH"}, NoneV)
        ordinality == AndThen(with, "_match", {"ORDINALITY"}, NoneV)
        as == Call("_match", ordinality.st, {"ALIAS"}, NoneV)
        table == Call("_parse_id_var", as.st, NoneV, NoneV)
        lp2 == Call("_match", table.st, {"L_PAREN"}, NoneV)
        columns == _parse_csv(lp2.st, "_parse_id_var")
        node == Call("expression", columns.st, "Unnest", <<<<"expressions", ListV(expressions_.v)>>, <<"ordinality", PyBool(ordinality.v)>>, <<"table", table.v>>, <<"columns", ListV(columns.v)>>>>)
        rp2 == Call("_match", node.st, {"R_PAREN"}, NoneV)
        s3 == Expect(rp2, M("Expecting )"), NoneV)
    IN CASE ~Truthy(unnest.v) -> R(unnest.st, NoneV)
         [] s1.exc # "" -> R(s1, NoneV)
         [] expressions_.st.exc # "" -> R(expressions_.st, NoneV)
         [] s2.exc # "" -> R(s2, NoneV)
         [] table.st.exc # "" -> R(table.st, NoneV)
         [] ~Truthy(lp2.v) ->
                Call("expression", lp2.st, "Unnest", <<<<"expressions", ListV(expressions_.v)>>, <<"ordinality", ordinality.v>>, <<"table", table.v>>>>)
         [] columns.st.exc # "" -> R(columns.st, NoneV)
         [] node.st.exc # "" -> R(node.st, NoneV)
         [] s3.exc # "" -> R(s3, NoneV)
         [] OTHER -> R(s3, node.v)

_parse_where(st) ==
    LET where == Call("_match", st, {"WHERE"}, NoneV)
        this == Call("_parse_conjunction", where.st, NoneV, NoneV)
    IN CASE ~Truthy(where.v) -> R(where.st, NoneV)
         [] this.st.exc # "" -> R(this.st, NoneV)
         [] OTHER -> Call("expression", this.st, "Where", <<<<"this", this.v>>>>)

_parse_group(st) ==
    LET group == Call("_match", st, {"GROUP"}, NoneV)
        csv == _parse_csv(group.st, "_parse_conjunction")
    IN CASE ~Truthy(group.v) -> R(group.st, NoneV)
         [] csv.st.exc # "" -> R(csv.st, NoneV)
         [] OTHER -> Call("expression", csv.st, "Group", <<<<"expressions", ListV(csv.v)>>>>)

_parse_having(st) ==
    LET having == Call("_match", st, {"HAVING"}, NoneV)
        this == Call("_parse_conjunction", having.st, NoneV, NoneV)
    IN CASE ~Truthy(having.v) -> R(having.st, NoneV)
         [] this.st.exc # "" -> R(this.st, NoneV)
         [] OTHER -> Call("expression", this.st, "Having", <<<<"this", this.v>>>>)

_parse_order(st) ==
    LET order == Call("_match", st, {"ORDER"}, NoneV)
        csv == _parse_csv(order.st, "_parse_ordered")
    IN CASE ~Truthy(order.v) -> R(order.st, NoneV)
         [] csv.st.exc # "" -> R(csv.st, NoneV)
         [] OTHER -> Call("expression", csv.st, "Order", <<<<"expressions", ListV(csv.v)>>>>)

_parse_ordered(st) ==
    LET this == Call("_parse_bitwise", st, NoneV, NoneV)
        asc == Call("_match", this.st, {"ASC"}, NoneV)
        desc == IF Truthy(asc.v) THEN asc ELSE Call("_match", asc.st, {"DESC"}, NoneV)
    IN CASE this.st.exc # "" -> R(this.st, NoneV)
         [] OTHER ->
                Call("expression", desc.st, "Ordered", <<<<"this", this.v>>, <<"desc", IF Truthy(desc.v) THEN BoolV(desc.v.s = "DESC")
                                       ELSE FalseV>>>>)

_parse_limit(st) ==
    LET limit == Call("_match", st, {"LIMIT"}, NoneV)
        limit_number == Call("_match", limit.st, {"NUMBER"}, NoneV)
    IN CASE ~Truthy(limit.v) -> R(limit.st, NoneV)
         [] OTHER ->
                Call("expression", limit_number.st, "Limit", <<<<"this", IF Truthy(limit_number.v) THEN StrV(limit_number.v.x)
                                       ELSE NoneV>>>>)

_parse_union(st, this) ==
    LET union == Call("_match", st, {"UNION"}, NoneV)
        all == Call("_match", union.st, {"ALL"}, NoneV)
        select == Call("_parse_select", all.st, NoneV, NoneV)
    IN CASE ~Truthy(union.v) -> R(union.st, this)
         [] select.st.exc # "" -> R(select.st, NoneV)
         [] OTHER ->
                Call("expression", select.st, "Union", <<<<"this", this>>, <<"expression", select.v>>, <<"distinct", PyNot(all.v)>>>>)

_parse_expression(st) ==
    LET this == Call("_parse_conjunction", st, NoneV, NoneV)
    IN CASE this.st.exc # "" -> R(this.st, NoneV)
         [] OTHER -> Call("_parse_alias", this.st, this.v, NoneV)

_parse_conjunction(st) == _parse_tokens(Call("_parse_equality", st, NoneV, NoneV), "_parse_equality", CONJUNCTION)

_parse_equality(st) == _parse_tokens(Call("_parse_comparison", st, NoneV, NoneV), "_parse_comparison", EQUALITY)

_parse_comparison(st) == _parse_tokens(Call("_parse_range", st, NoneV, NoneV), "_parse_range", COMPARISON)

_parse_range(st) ==
    LET this == Call("_parse_bitwise", st, NoneV, NoneV)
        negate == Call("_match", this.st, {"NOT"}, NoneV)
        like == Call("_match", negate.st, {"LIKE"}, NoneV)
        rlike == Call("_match", like.st, {"RLIKE"}, NoneV)
        in == Call("_match", rlike.st, {"IN"}, NoneV)
        between == Call("_match", in.st, {"BETWEEN"}, NoneV)
        node ==
            CASE Truthy(like.v) ->
                    LET e == Call("_parse_term", like.st, NoneV, NoneV)
                    IN CASE e.st.exc # "" -> R(e.st, NoneV)
                         [] OTHER ->
                                Call("expression", e.st, "Like", <<<<"this", this.v>>, <<"expression", e.v>>>>)
              [] Truthy(rlike.v) ->
                    LET e == Call("_parse_term", rlike.st, NoneV, NoneV)
                    IN CASE e.st.exc # "" -> R(e.st, NoneV)
                         [] OTHER ->
                                Call("expression", e.st, "RegexLike", <<<<"this", this.v>>, <<"expression", e.v>>>>)
              [] Truthy(in.v) ->
                    LET lp == Call("_match", in.st, {"L_PAREN"}, NoneV)
                        s1 == ExpectPrev(lp, M("Expected ( after IN"))
                        query == Call("_parse_select", s1, NoneV, NoneV)
                        csv == _parse_csv(query.st, "_parse_term")
                        n == IF Truthy(query.v)
                             THEN Call("expression", query.st, "In", <<<<"this", this.v>>, <<"query", query.v>>>>)
                             ELSE Call("expression", csv.st, "In", <<<<"this", this.v>>, <<"expressions", ListV(csv.v)>>>>)
                        rp == Call("_match", n.st, {"R_PAREN"}, NoneV)
                    IN CASE s1.exc # "" -> R(s1, NoneV)
                         [] query.st.exc # "" -> R(query.st, NoneV)
                         [] ~Truthy(query.v) /\ csv.st.exc # "" -> R(csv.st, NoneV)
                         [] n.st.exc # "" -> R(n.st, NoneV)
                         [] ~Truthy(rp.v) ->
                                R(Call("raise_error", rp.st, M("Expected ) after IN"), NoneV), n.v)
                         [] OTHER -> R(rp.st, n.v)
              [] Truthy(between.v) ->
                    LET low == Call("_parse_term", between.st, NoneV, NoneV)
                        and == Call("_match", low.st, {"AND"}, NoneV)
                        high == Call("_parse_term", and.st, NoneV, NoneV)
                    IN CASE low.st.exc # "" -> R(low.st, NoneV)
                         [] high.st.exc # "" -> R(high.st, NoneV)
                         [] OTHER ->
                                Call("expression", high.st, "Between", <<<<"this", this.v>>, <<"low", low.v>>, <<"high", high.v>>>>)
              [] OTHER -> R(between.st, this.v)
    IN CASE this.st.exc # "" -> R(this.st, NoneV)
         [] node.st.exc # "" -> R(node.st, NoneV)
         [] Truthy(negate.v) -> Call("expression", node.st, "Not", <<<<"this", node.v>>>>)
         [] OTHER -> node

_parse_bitwise(st) == _parse_tokens(Call("_parse_term", st, NoneV, NoneV), "_parse_term", BITWISE)

_parse_term(st) == _parse_tokens(Call("_parse_factor", st, NoneV, NoneV), "_parse_factor", TERM)

_parse_factor(st) == _parse_tokens(Call("_parse_unary", st, NoneV, NoneV), "_parse_unary", FACTOR)

_parse_unary(st) ==
    LET not == Call("_match", st, {"NOT"}, NoneV)
        tilda == Call("_match", not.st, {"TILDA"}, NoneV)
        dash == Call("_match", tilda.st, {"DASH"}, NoneV)
        op == IF Truthy(not.v) THEN not ELSE IF Truthy(tilda.v) THEN tilda ELSE dash
        this == Call("_parse_unary", op.st, NoneV, NoneV)
    IN CASE ~(Truthy(not.v) \/ Truthy(tilda.v) \/ Truthy(dash.v)) -> Call("_parse_type", dash.st, NoneV, NoneV)
         [] this.st.exc # "" -> R(this.st, NoneV)
         [] Truthy(not.v) -> Call("expression", this.st, "Not", <<<<"this", this.v>>>>)
         [] Truthy(tilda.v) -> Call("expression", this.st, "BitwiseNot", <<<<"this", this.v>>>>)
         [] OTHER -> Call("expression", this.st, "Neg", <<<<"this", this.v>>>>)

_parse_type(st) ==
    LET interval == Call("_match", st, {"INTERVAL"}, NoneV)
        ithis == Call("_match", interval.st, {"STRING", "NUMBER"}, NoneV)
        unit == Call("_match", ithis.st, {"VAR"}, NoneV)
        type_token == Call("_parse_types", interval.st, NoneV, NoneV)
        this == Call("_parse_primary", type_token.st, NoneV, NoneV)
        dcolon == Call("_match", this.st, {"DCOLON"}, NoneV)
        to == Call("_parse_types", dcolon.st, NoneV, NoneV)
        s1 == Expect(to, M("Expected type"), NoneV)
    IN CASE Truthy(interval.v) ->
                Call("expression", unit.st, "Interval", <<<<"this", ithis.v>>, <<"unit", unit.v>>>>)
         [] type_token.st.exc # "" -> R(type_token.st, NoneV)
         [] this.st.exc # "" -> R(this.st, NoneV)
         [] Truthy(type_token.v) /\ Truthy(this.v) ->
                Call("expression", this.st, "Cast", <<<<"this", this.v>>, <<"to", type_token.v>>>>)
         [] Truthy(type_token.v) -> R(this.st, type_token.v)
         [] ~Truthy(dcolon.v) -> Call("_parse_column_def", dcolon.st, this.v, NoneV)
         [] to.st.exc # "" -> R(to.st, NoneV)
         [] s1.exc # "" -> R(s1, NoneV)
         [] OTHER -> Call("expression", s1, "Cast", <<<<"this", this.v>>, <<"to", to.v>>>>)

\* What a call of _parse_types met and did: the types of curr and next at
\* its entry, the index at its entry and at its exit, whether it gave None
Typed(st, r) ==
    IF st.exc # "" THEN r
    ELSE R([r.st EXCEPT !.typed = Append(@, [curr |-> st._curr.s, next |-> st._next.s,
                                            from |-> st._index, to |-> r.st._index,
                                            none |-> IsNone(r.v)])],
           r.v)

\* The type parser without its first test
_parse_types_without_ambiguity_test(st) ==
    LET ts == Call("_match", st, {"TIMESTAMP", "TIMESTAMPTZ"}, NoneV)
        tz == Call("_match", ts.st, {"WITH"}, NoneV)
        without == Call("_match", tz.st, {"WITHOUT"}, NoneV)
        time == Call("_match", without.st, {"TIME"}, NoneV)
        zone == Call("_match", time.st, {"ZONE"}, NoneV)
        type == Call("_match", ts.st, TYPE_TOKENS, NoneV)
    IN Typed(st,
             CASE Truthy(ts.v) ->
                      R(zone.st, IF Truthy(tz.v) THEN Token("TIMESTAMPTZ", "TIMESTAMPTZ", 1, 1)
                                 ELSE Token("TIMESTAMP", "TIMESTAMP", 1, 1))
               [] type.st.exc # "" -> R(type.st, NoneV)
               [] OTHER -> Call("_parse_function", type.st, type.v, FALSE))

_parse_types(st) ==
    LET ambiguous ==
            /\ Truthy(st._curr)
            /\ st._curr.s \in AMBIGUOUS_TOKEN_TYPES
            /\ Truthy(st._next)
            /\ st._next.s \in {"L_PAREN", "L_BRACKET"}
        ts == Call("_match", st, {"TIMESTAMP", "TIMESTAMPTZ"}, NoneV)
        tz == Call("_match", ts.st, {"WITH"}, NoneV)
        without == Call("_match", tz.st, {"WITHOUT"}, NoneV)
        time == Call("_match", without.st, {"TIME"}, NoneV)
        zone == Call("_match", time.st, {"ZONE"}, NoneV)
        type == Call("_match", ts.st, TYPE_TOKENS, NoneV)
    IN Typed(st,
             CASE ambiguous -> R(st, NoneV)
               [] Truthy(ts.v) ->
                      R(zone.st, IF Truthy(tz.v) THEN Token("TIMESTAMPTZ", "TIMESTAMPTZ", 1, 1)
                                 ELSE Token("TIMESTAMP", "TIMESTAMP", 1, 1))
               [] type.st.exc # "" -> R(type.st, NoneV)
               [] OTHER -> Call("_parse_function", type.st, type.v, FALSE))

\* parse_option(option, option_lambda) of _parse_column_def, the lambda being
\* `match(first) and match(*second)`, within bool() or not, or `bool(match(first))`
ColumnDefOption(st, option, first, second, as_bool) ==
    LET a == Call("_match", st, {first}, NoneV)
        b == IF second = {} THEN a ELSE AndThen(a, "_match", second, NoneV)
    IN CASE Truthy(option) -> [st |-> st, v |-> option, parsed |-> FALSE]
         [] as_bool -> [st |-> b.st, v |-> PyBool(b.v), parsed |-> Truthy(b.v)]
         [] OTHER -> [st |-> b.st, v |-> b.v, parsed |-> Truthy(b.v)]

\* The `while options["parsed"]` loop of _parse_column_def
\* the test of the `while` after a pass that began at index `from`
ColumnDefOptionsAgain(st, from, options, parsed) ==
    ColumnDefOptions(Round(IF parsed THEN Iterate(st, from) ELSE st, "_parse_column_def", from,
                           parsed),
                     options, parsed)

ColumnDefOptions(st, options, parsed) ==
    LET auto_increment ==
            ColumnDefOption(st, options.auto_increment, "AUTO_INCREMENT", {}, TRUE)
        collate == ColumnDefOption(auto_increment.st, options.collate, "COLLATE", {"VAR"},
                                   FALSE)
        default == ColumnDefOption(collate.st, options.default, "DEFAULT", PRIMARY_TOKENS,
                                   FALSE)
        not_null == ColumnDefOption(default.st, options.not_null, "NOT", {"NULL"}, TRUE)
        comment == ColumnDefOption(not_null.st, options.comment, "SCHEMA_COMMENT",
                                   {"STRING"}, FALSE)
    IN CASE ~parsed -> R(st, options)
         [] OTHER ->
                ColumnDefOptionsAgain(comment.st, st._index,
                                 [not_null |-> not_null.v,
                                  auto_increment |-> auto_increment.v,
                                  collate |-> collate.v, comment |-> comment.v,
                                  default |-> default.v],
                                 auto_increment.parsed \/ collate.parsed \/ default.parsed
                                     \/ not_null.parsed \/ comment.parsed)

\* **options of the call that builds the ColumnDef node
ColumnDefSlots(options) ==
    <<<<"not_null", options.not_null>>, <<"auto_increment", options.auto_increment>>,
      <<"collate", options.collate>>, <<"comment", options.comment>>,
      <<"default", options.default>>>>

_parse_column_def(st, this) ==
    LET kind == Call("_parse_types", st, NoneV, NoneV)
        options == ColumnDefOptions(kind.st,
                                    [not_null |-> NoneV, auto_increment |-> NoneV,
                                     collate |-> NoneV, comment |-> NoneV, default |-> NoneV],
                                    TRUE)
    IN CASE kind.st.exc # "" -> R(kind.st, NoneV)
         [] ~Truthy(kind.v) -> R(kind.st, this)
         [] options.st.exc # "" -> R(options.st, NoneV)
         [] OTHER ->
                Call("expression", options.st, "ColumnDef",
                     <<<<"this", this>>, <<"kind", kind.v>>>> \o ColumnDefSlots(options.v))

_parse_primary(st) ==
    LET primary == Call("_match", st, PRIMARY_TOKENS, NoneV)
        lp == Call("_match", primary.st, {"L_PAREN"}, NoneV)
        select == Call("_parse_select", lp.st, NoneV, NoneV)
        this == IF Truthy(select.v) THEN select ELSE Call("_parse_conjunction", select.st, NoneV, NoneV)
        rp == Call("_match", this.st, {"R_PAREN"}, NoneV)
        s1 == Expect(rp, M("Expecting )"), lp.v)
    IN CASE Truthy(primary.v) -> R(primary.st, primary.st._prev)
         [] ~Truthy(lp.v) /\ IsNone(lp.st._curr) ->
                R(Call("raise_error", lp.st, M("Expecting expression"), NoneV), NoneV)
         [] ~Truthy(lp.v) -> Call("_parse_column", lp.st, NoneV, NoneV)
         [] select.st.exc # "" -> R(select.st, NoneV)
         [] this.st.exc # "" -> R(this.st, NoneV)
         [] s1.exc # "" -> R(s1, NoneV)
         [] OTHER -> Call("expression", s1, "Paren", <<<<"this", this.v>>>>)

\* The `while self._match(TokenType.DOT)` loop of _parse_column
\* The loop taking the db from the name it has just replaced
ColumnLoop_db_from_this(st, this, table, db, fields) ==
    LET dot == Call("_match", st, {"DOT"}, NoneV)
        part == Call("_match", dot.st, COLUMN_TOKENS, NoneV)
        started == IF Truthy(fields) THEN fields.c ELSE <<db, table, this>>
    IN CASE ~Truthy(dot.v) ->
                [st |-> dot.st, this |-> this, table |-> table, db |-> db, fields |-> fields]
         [] Truthy(db) ->
                ColumnLoop(Iterate(part.st, st._index), this, table, db,
                           ListV(Append(started, part.v)))
         [] OTHER ->
                ColumnLoop(Iterate(part.st, st._index), part.v, this,
                           IF Truthy(table) THEN this ELSE db, fields)

ColumnLoop(st, this, table, db, fields) ==
    LET dot == Call("_match", st, {"DOT"}, NoneV)
        part == Call("_match", dot.st, COLUMN_TOKENS, NoneV)
        started == IF Truthy(fields) THEN fields.c ELSE <<db, table, this>>
    IN CASE ~Truthy(dot.v) ->
                [st |-> dot.st, this |-> this, table |-> table, db |-> db, fields |-> fields]
         [] Truthy(db) ->
                ColumnLoop(Iterate(part.st, st._index), this, table, db,
                           ListV(Append(started, part.v)))
         [] OTHER ->
                ColumnLoop(Iterate(part.st, st._index), part.v, this,
                           IF Truthy(table) THEN table ELSE db, fields)

\* self._advance() moves over the current token whatever its type is.
_parse_column(st) ==
    LET a == Call("_advance", st, NoneV, NoneV)
        s1 == [a EXCEPT !.consumed =
                   Append(@, Consumed(st, "_parse_column",
                                      st._curr.s \notin NON_COLUMN_TOKENS))]
        f == Call("_parse_function", s1, s1._prev, FALSE)
        l == ColumnLoop(f.st, f.v, NoneV, NoneV, NoneV)
        column ==
            CASE ~(IsToken(l.this) /\ l.this.s \in COLUMN_TOKENS) -> R(l.st, l.this)
              [] Truthy(l.fields) ->
                    Call("expression", l.st, "Column",
                         <<<<"this", NoneV>>, <<"db", NoneV>>, <<"table", NoneV>>,
                           <<"fields", l.fields>>>>)
              [] OTHER ->
                    Call("expression", l.st, "Column",
                         <<<<"this", l.this>>, <<"db", l.db>>, <<"table", l.table>>,
                           <<"fields", l.fields>>>>)
    IN CASE st.exc # "" -> R(st, NoneV)
         [] st._curr.s \in NON_COLUMN_TOKENS -> R(st, NoneV)
         [] f.st.exc # "" -> R(f.st, NoneV)
         [] l.st.exc # "" -> R(l.st, NoneV)
         [] column.st.exc # "" -> R(column.st, NoneV)
         [] OTHER -> Call("_parse_brackets", column.st, column.v, NoneV)

\* The arity check with the variable-arity test lost: the fault that
\* C9_FunctionArity has to detect.
ArityCheck_without_var_len_test(st, this, args) ==
    CASE st.exc # "" -> R(st, NoneV)
      [] Len(args) > Len(arg_types(this.s)) ->
            R(Call("raise_error", st,
                   Msg("The number of provided arguments ({n}) is greater than the maximum number of supported arguments ({m})",
                       "", "", Len(args), Len(arg_types(this.s))),
                   NoneV),
              this)
      [] OTHER -> R(st, this)

\* The arity check that follows validate_expression in _parse_function
ArityCheck(st, this, args) ==
    CASE st.exc # "" -> R(st, NoneV)
      [] Len(args) > Len(arg_types(this.s)) /\ ~is_var_len_args(this.s) ->
            R(Call("raise_error", st,
                   Msg("The number of provided arguments ({n}) is greater than the maximum number of supported arguments ({m})",
                       "", "", Len(args), Len(arg_types(this.s))),
                   NoneV),
              this)
      [] OTHER -> R(st, this)

\* The branch of a registered builder: this = function(args), then the
\* validation and the arity check
Registered(st, this, args) == ArityCheck(Call("validate_expression", st, this, NoneV), this, args)

\* The `else` branch of _parse_function: a call by name
FunctionCall(st, this, schema) ==
    LET csv == _parse_csv(st, "_parse_conjunction")
    IN CASE csv.st.exc # "" -> R(csv.st, NoneV)
         [] schema ->
                Call("expression", csv.st, "Schema",
                     <<<<"this", this>>, <<"expressions", ListV(csv.v)>>>>)
         [] functions(Upper(this.x)) = "" ->
                Call("expression", csv.st, "Anonymous",
                     <<<<"this", StrV(this.x)>>, <<"expressions", ListV(csv.v)>>>>)
         [] functions(Upper(this.x)) = "_parse_decimal" ->
                Registered(csv.st, _parse_decimal(EnsureItems(csv.v)), EnsureItems(csv.v))
         [] OTHER ->
                Registered(csv.st, from_arg_list(functions(Upper(this.x)), EnsureItems(csv.v)),
                           EnsureItems(csv.v))

_parse_function(st, this, schema) ==
    LET lp == Call("_match", st, {"L_PAREN"}, NoneV)
        node ==
            CASE this.s = "CAST" -> Call("_parse_cast", lp.st, NoneV, NoneV)
              [] this.s = "COUNT" -> Call("_parse_count", lp.st, NoneV, NoneV)
              [] this.s = "EXTRACT" -> Call("_parse_extract", lp.st, NoneV, NoneV)
              [] OTHER -> FunctionCall(lp.st, this, schema)
        rp == Call("_match", node.st, {"R_PAREN"}, NoneV)
        s1 == Expect(rp, M("Expected )"), NoneV)
    IN CASE st.exc # "" -> R(st, NoneV)
         [] ~Truthy(this) -> R(st, this)
         [] ~IsToken(this) -> R(Throw(st, "AttributeError"), NoneV)
         [] this.s = "CASE" -> Call("_parse_case", st, NoneV, NoneV)
         [] ~Truthy(lp.v) -> R(lp.st, this)
         [] node.st.exc # "" -> R(node.st, NoneV)
         [] s1.exc # "" -> R(s1, NoneV)
         [] OTHER -> Call("_parse_window", s1, node.v, NoneV)

\* The `while self._match(TokenType.WHEN)` loop of _parse_case
CaseLoop(st, ifs) ==
    LET when == Call("_match", st, {"WHEN"}, NoneV)
        this == Call("_parse_conjunction", when.st, NoneV, NoneV)
        then_ == Call("_match", this.st, {"THEN"}, NoneV)
        true == Call("_parse_conjunction", then_.st, NoneV, NoneV)
        node == Call("expression", true.st, "If", <<<<"this", this.v>>, <<"true", true.v>>>>)
    IN CASE ~Truthy(when.v) -> R(when.st, ifs)
         [] this.st.exc # "" -> R(this.st, ifs)
         [] true.st.exc # "" -> R(true.st, ifs)
         [] node.st.exc # "" -> R(node.st, ifs)
         [] OTHER -> CaseLoop(Iterate(node.st, st._index), Append(ifs, node.v))

_parse_case(st) ==
    LET operand == Call("_parse_conjunction", st, NoneV, NoneV)
        ifs == CaseLoop(operand.st, <<>>)
        else == Call("_match", ifs.st, {"ELSE"}, NoneV)
        default == AndThen(else, "_parse_conjunction", NoneV, NoneV)
        end == Call("_match", default.st, {"END"}, NoneV)
        s1 == ExpectPrev(end, M("Expected END after CASE"))
        node == Call("expression", s1, "Case", <<<<"this", operand.v>>, <<"ifs", ListV(ifs.v)>>, <<"default", default.v>>>>)
    IN CASE operand.st.exc # "" -> R(operand.st, NoneV)
         [] ifs.st.exc # "" -> R(ifs.st, NoneV)
         [] default.st.exc # "" -> R(default.st, NoneV)
         [] s1.exc # "" -> R(s1, NoneV)
         [] node.st.exc # "" -> R(node.st, NoneV)
         [] OTHER -> Call("_parse_brackets", node.st, node.v, NoneV)

_parse_count(st) ==
    LET distinct == Call("_match", st, {"DISTINCT"}, NoneV)
        this == Call("_parse_conjunction", distinct.st, NoneV, NoneV)
    IN CASE distinct.st.exc # "" -> R(distinct.st, NoneV)
         [] this.st.exc # "" -> R(this.st, NoneV)
         [] OTHER ->
                Call("expression", this.st, "Count", <<<<"distinct", distinct.v>>, <<"this", this.v>>>>)

_parse_extract(st) ==
    LET this == Call("_match", st, {"VAR"}, NoneV)
        from == Call("_match", this.st, {"FROM"}, NoneV)
        s1 == ExpectPrev(from, M("Expected FROM after EXTRACT"))
        type == Call("_parse_type", s1, NoneV, NoneV)
    IN CASE s1.exc # "" -> R(s1, NoneV)
         [] type.st.exc # "" -> R(type.st, NoneV)
         [] OTHER ->
                Call("expression", type.st, "Extract", <<<<"this", this.v>>, <<"expression", type.v>>>>)

_parse_cast(st) ==
    LET this == Call("_parse_conjunction", st, NoneV, NoneV)
        as == Call("_match", this.st, {"ALIAS"}, NoneV)
        s1 == Expect(as, M("Expected AS after CAST"), NoneV)
        type == Call("_match", s1, TYPE_TOKENS, NoneV)
        s2 == Expect(type, M("Expected TYPE after CAST"), NoneV)
        brackets == Call("_parse_brackets", s2, s2._prev, NoneV)
        to == Call("_parse_function", brackets.st, brackets.v, FALSE)
    IN CASE this.st.exc # "" -> R(this.st, NoneV)
         [] s1.exc # "" -> R(s1, NoneV)
         [] s2.exc # "" -> R(s2, NoneV)
         [] brackets.st.exc # "" -> R(brackets.st, NoneV)
         [] to.st.exc # "" -> R(to.st, NoneV)
         [] OTHER -> Call("expression", to.st, "Cast", <<<<"this", this.v>>, <<"to", to.v>>>>)

\* The dict that _parse_window_spec returns is the record [value, side].
_parse_window_spec(st) ==
    LET between == Call("_match", st, {"BETWEEN"}, NoneV)
        bound == Call("_match", between.st, {"UNBOUNDED", "CURRENT_ROW"}, NoneV)
        value == IF Truthy(bound.v) THEN bound ELSE Call("_parse_bitwise", bound.st, NoneV, NoneV)
        side == Call("_match", value.st, {"PRECEDING", "FOLLOWING"}, NoneV)
    IN CASE value.st.exc # "" -> [st |-> value.st, value |-> NoneV, side |-> NoneV]
         [] OTHER -> [st |-> side.st, value |-> value.v, side |-> side.v]

_parse_window(st, this) ==
    LET over == Call("_match", st, {"OVER"}, NoneV)
        lp == Call("_match", over.st, {"L_PAREN"}, NoneV)
        s1 == Expect(lp, M("Expecting ( after OVER"), NoneV)
        by == Call("_match", s1, {"PARTITION"}, NoneV)
        partition == IF Truthy(by.v)
                     THEN LET l == _parse_csv(by.st, "_parse_type") IN R(l.st, ListV(l.v))
                     ELSE R(by.st, NoneV)
        order == Call("_parse_order", partition.st, NoneV, NoneV)
        kind == Call("_match", order.st, {"ROWS", "RANGE"}, NoneV)
        between == Call("_match", kind.st, {"BETWEEN"}, NoneV)
        start == Call("_parse_window_spec", between.st, NoneV, NoneV)
        and == Call("_match", start.st, {"AND"}, NoneV)
        end == Call("_parse_window_spec", and.st, NoneV, NoneV)
        spec == CASE ~Truthy(kind.v) -> R(kind.st, NoneV)
                  [] start.st.exc # "" -> R(start.st, NoneV)
                  [] end.st.exc # "" -> R(end.st, NoneV)
                  [] OTHER ->
                        Call("expression", end.st, "WindowSpec", <<<<"kind", kind.v>>, <<"start", start.value>>, <<"start_side", start.side>>, <<"end", end.value>>, <<"end_side", end.side>>>>)
        rp == Call("_match", spec.st, {"R_PAREN"}, NoneV)
        s2 == Expect(rp, M("Expecting )"), NoneV)
    IN CASE ~Truthy(over.v) -> R(over.st, this)
         [] s1.exc # "" -> R(s1, NoneV)
         [] partition.st.exc # "" -> R(partition.st, NoneV)
         [] order.st.exc # "" -> R(order.st, NoneV)
         [] spec.st.exc # "" -> R(spec.st, NoneV)
         [] s2.exc # "" -> R(s2, NoneV)
         [] OTHER ->
                Call("expression", s2, "Window", <<<<"this", this>>, <<"partition", partition.v>>, <<"order", order.v>>, <<"spec", spec.v>>>>)

_parse_brackets(st, this) ==
    LET lb == Call("_match", st, {"L_BRACKET"}, NoneV)
        csv == _parse_csv(lb.st, "_parse_conjunction")
        bracket == IF IsToken(this) /\ this.s = "ARRAY"
                   THEN Call("expression", csv.st, "Array", <<<<"expressions", ListV(csv.v)>>>>)
                   ELSE Call("expression", csv.st, "Bracket", <<<<"this", this>>, <<"expressions", ListV(csv.v)>>>>)
        rb == Call("_match", bracket.st, {"R_BRACKET"}, NoneV)
        s1 == Expect(rb, M("Expected ]"), NoneV)
        dot == Call("_parse_dot", s1, bracket.v, NoneV)
    IN CASE ~Truthy(lb.v) -> R(lb.st, this)
         [] csv.st.exc # "" -> R(csv.st, NoneV)
         [] bracket.st.exc # "" -> R(bracket.st, NoneV)
         [] s1.exc # "" -> R(s1, NoneV)
         [] dot.st.exc # "" -> R(dot.st, NoneV)
         [] OTHER -> Call("_parse_brackets", dot.st, dot.v, NoneV)

_parse_dot(st, this) ==
    LET dot == Call("_match", st, {"DOT"}, NoneV)
        id == Call("_parse_id_var", dot.st, NoneV, NoneV)
        node == Call("expression", id.st, "Dot", <<<<"this", this>>, <<"expression", id.v>>>>)
    IN CASE ~Truthy(dot.v) -> R(dot.st, this)
         [] node.st.exc # "" -> R(node.st, NoneV)
         [] OTHER -> Call("_parse_dot", node.st, node.v, NoneV)

_parse_alias(st, this) ==
    LET as == Call("_match", st, {"ALIAS"}, NoneV)
        alias == Call("_parse_id_var", as.st, NoneV, NoneV)
    IN CASE Truthy(alias.v) ->
                Call("expression", alias.st, "Alias", <<<<"this", this>>, <<"alias", alias.v>>>>)
         [] OTHER -> R(alias.st, this)

_parse_id_var(st) == Call("_match", st, ID_VAR_TOKENS, NoneV)

\* The loop with a test that looks at the comma and leaves it where it is
CsvLoop_peeks_comma(st, parse, items) ==
    LET parse_result == Call(parse, st, FalseV, FALSE)
    IN CASE st.exc # "" \/ st._curr.s # "COMMA" -> R(st, items)
         [] parse_result.st.exc # "" -> R(parse_result.st, items)
         [] OTHER ->
                CsvLoop(Iterate(parse_result.st, st._index), parse,
                        IF IsNone(parse_result.v) THEN items
                        ELSE Append(items, parse_result.v))

\* The `while self._match(TokenType.COMMA)` loop of _parse_csv
CsvLoop(st, parse, items) ==
    LET comma == Call("_match", st, {"COMMA"}, NoneV)
        parse_result == Call(parse, comma.st, FalseV, FALSE)
    IN CASE ~Truthy(comma.v) -> R(comma.st, items)
         [] parse_result.st.exc # "" -> R(parse_result.st, items)
         [] OTHER ->
                CsvLoop(Iterate(parse_result.st, st._index), parse,
                        IF IsNone(parse_result.v) THEN items
                        ELSE Append(items, parse_result.v))

_parse_csv(st, parse) ==
    LET parse_result == Call(parse, st, FalseV, FALSE)
    IN CASE st.exc # "" -> R(st, <<>>)
         [] parse_result.st.exc # "" -> R(parse_result.st, <<>>)
         [] OTHER ->
                CsvLoop(parse_result.st, parse,
                        IF IsNone(parse_result.v) THEN <<>> ELSE <<parse_result.v>>)

\* The loop folding to the right: the right operand is all that follows
TokensLoop_folds_right(st, parse, classes, this) ==
    LET op == Call("_match", st, DOMAIN classes, NoneV)
        right == Call(parse, op.st, FalseV, FALSE)
        rest == TokensLoop(right.st, parse, classes, right.v)
        node == Call("expression", rest.st, classes[op.st._prev.s],
                     <<<<"this", this>>, <<"expression", rest.v>>>>)
    IN CASE ~Truthy(op.v) -> R(op.st, this)
         [] right.st.exc # "" -> R(right.st, NoneV)
         [] rest.st.exc # "" -> R(rest.st, NoneV)
         [] OTHER -> node

\* The `while self._match(*expressions)` loop of _parse_tokens
TokensLoop(st, parse, classes, this) ==
    LET op == Call("_match", st, DOMAIN classes, NoneV)
        right == Call(parse, op.st, FalseV, FALSE)
        node == Call("expression", right.st, classes[op.st._prev.s], <<<<"this", this>>, <<"expression", right.v>>>>)
    IN CASE ~Truthy(op.v) -> R(op.st, this)
         [] right.st.exc # "" -> R(right.st, NoneV)
         [] node.st.exc # "" -> R(node.st, NoneV)
         [] OTHER -> TokensLoop(Iterate(node.st, st._index), parse, classes, node.v)

_parse_tokens(this, parse, classes) ==
    CASE this.st.exc # "" -> R(this.st, NoneV)
      [] OTHER -> TokensLoop(this.st, parse, classes, this.v)

(***************************************************************************)
(* The threaded state: the instance fields and the history of the call.    *)
(***************************************************************************)
St(inst, h) ==
    [code |-> inst.code, error |-> inst.error, _tokens |-> inst._tokens,
     _chunks |-> inst._chunks, _index |-> inst._index, _curr |-> inst._curr,
     _next |-> inst._next, _prev |-> inst._prev, error_level |-> inst.error_level,
     exc |-> h.exc, raised |-> h.raised, reported |-> h.reported, logged |-> h.logged,
     consumed |-> h.consumed, advances |-> h.advances, trail |-> h.trail,
     typed |-> h.typed, rounds |-> h.rounds]

Instance(st) ==
    [code |-> st.code, error |-> st.error, _tokens |-> st._tokens, _chunks |-> st._chunks,
     _index |-> st._index, _curr |-> st._curr, _next |-> st._next, _prev |-> st._prev,
     error_level |-> st.error_level]

History(st) ==
    [exc |-> st.exc, raised |-> st.raised, reported |-> st.reported, logged |-> st.logged,
     consumed |-> st.consumed, advances |-> st.advances, trail |-> st.trail,
     typed |-> st.typed, rounds |-> st.rounds]

\* Nothing has happened yet in the call.
NoHistory ==
    [exc |-> "", raised |-> NoError, reported |-> <<>>, logged |-> <<>>, consumed |-> <<>>,
     advances |-> 0, trail |-> <<>>, typed |-> <<>>,
     rounds |-> <<>>]

\* reset leaving the error slot as it is: the fault that C12_ParseStartsAfresh
\* has to detect.
reset_keeps_error(inst) ==
    [inst EXCEPT !.code = <<>>, !._tokens = <<>>, !._chunks = <<<<>>>>,
                 !._index = 0, !._curr = NoneV, !._next = NoneV, !._prev = NoneV]

\* Parser.reset
reset(inst) ==
    [inst EXCEPT !.code = <<>>, !.error = NoError, !._tokens = <<>>, !._chunks = <<<<>>>>,
                 !._index = 0, !._curr = NoneV, !._next = NoneV, !._prev = NoneV]

\* Parser.__init__ with the given error level
NewParser(error_level) ==
    reset([code |-> <<>>, error |-> NoError, _tokens |-> <<>>, _chunks |-> <<<<>>>>,
           _index |-> 0, _curr |-> NoneV, _next |-> NoneV, _prev |-> NoneV,
           error_level |-> error_level])

\* The loop of parse() that splits raw_tokens into chunks on semicolons
RECURSIVE SplitChunks(_, _, _)
SplitChunks(raw_tokens, i, chunks) ==
    IF i > Len(raw_tokens) THEN chunks
    ELSE LET total == Len(raw_tokens)
             last == Len(chunks)
         IN IF raw_tokens[i].s = "SEMICOLON"
            THEN SplitChunks(raw_tokens, i + 1,
                             IF i - 1 < total - 1 THEN Append(chunks, <<>>) ELSE chunks)
            ELSE SplitChunks(raw_tokens, i + 1,
                             [chunks EXCEPT ![last] = Append(@, raw_tokens[i])])

\* Expression.walk as parse() uses it: every (node, parent, key) below a root.
\* A node is named by its place: the steps <<key, j>> that lead to it from
\* the list parse() returns, j being the position in a list slot, 0 for a
\* node held directly.
RECURSIVE WalkNode(_, _)
WalkValue(holder, key, j, v) ==
    IF IsNode(v)
    THEN LET at == Append(holder, <<key, j>>)
         IN {[node |-> at, parent |-> holder, arg_key |-> key]} \cup WalkNode(at, v)
    ELSE {}
WalkNode(at, n) ==
    UNION {IF IsList(n.c[i].c[1])
           THEN UNION {WalkValue(at, n.c[i].s, j, n.c[i].c[1].c[j]) :
                           j \in 1..Len(n.c[i].c[1].c)}
           ELSE WalkValue(at, n.c[i].s, 0, n.c[i].c[1]) : i \in 1..Len(n.c)}

\* The post-pass wiring only the nodes held directly by a root (a loop over
\* the root's args in place of the walk): the fault that C7_ParentsWired has
\* to detect.
WireParents_of_roots_only(roots) ==
    UNION {IF IsNode(roots[i])
           THEN {[node |-> <<<<"", i>>, <<roots[i].c[k].s, 0>>>>, parent |-> <<<<"", i>>>>,
                  arg_key |-> roots[i].c[k].s] :
                     k \in {k \in 1..Len(roots[i].c) : IsNode(roots[i].c[k].c[1])}}
           ELSE {} : i \in 1..Len(roots)}

\* The post-pass of parse(): node.parent and node.arg_key of every node it sets
WireParents(roots) ==
    UNION {IF IsNode(roots[i]) THEN WalkNode(<<<<"", i>>>>, roots[i]) ELSE {} :
               i \in 1..Len(roots)}

(***************************************************************************)
(* Inputs.  A token of the lexer is a (type, text) pair placed on line 1   *)
(* of the source, tokens one space apart.                                  *)
(***************************************************************************)
RECURSIVE Place(_, _, _)
Place(pairs, i, col) ==
    IF i > Len(pairs) THEN <<>>
    ELSE <<Token(pairs[i][1], pairs[i][2], 1, col)>>
             \o Place(pairs, i + 1, col + Len(pairs[i][2]) + 1)

Lex(pairs) == Place(pairs, 1, 1)

\* The source text the tokens were read from: "x" stands for a character of a token
RECURSIVE SourceOf(_, _)
SourceOf(pairs, i) ==
    IF i > Len(pairs) THEN <<>>
    ELSE [j \in 1..Len(pairs[i][2]) |-> "x"]
             \o (IF i < Len(pairs) THEN <<" ">> ELSE <<>>) \o SourceOf(pairs, i + 1)

\* Statements without parentheses are drawn token by token from Alphabet
Alphabet ==
    {<<"VAR", "a">>, <<"NUMBER", "1">>, <<"SEMICOLON", ";">>, <<"DROP", "DROP">>,
     <<"CREATE", "CREATE">>, <<"TABLE", "TABLE">>, <<"SELECT", "SELECT">>,
     <<"COMMA", ",">>, <<"PLUS", "+">>, <<"INT", "INT">>}

RECURSIVE SeqsUpTo(_, _)
SeqsUpTo(S, n) ==
    IF n = 0 THEN {<<>>}
    ELSE LET shorter == SeqsUpTo(S, n - 1)
         IN shorter \cup {Append(s, x) : s \in {t \in shorter : Len(t) = n - 1}, x \in S}

\* Function calls: name ( a , ... , a ) with n arguments
FunctionNames == {<<"IF", "IF">>, <<"VAR", "COALESCE">>, <<"VAR", "f">>}

RECURSIVE Arguments(_)
Arguments(n) ==
    IF n = 0 THEN <<>>
    ELSE IF n = 1 THEN <<<<"VAR", "a">>>>
    ELSE Arguments(n - 1) \o <<<<"COMMA", ",">>, <<"VAR", "a">>>>

FunctionCalls ==
    {<<name, <<"L_PAREN", "(">>>> \o Arguments(n) \o <<<<"R_PAREN", ")">>>> :
         name \in FunctionNames, n \in 0..MaxArgs}

\* Statements that take the loops of the grammar through more than one pass.
\* K(word) is a keyword token, whose text is the keyword.
K(word) == <<word, word>>
V(name) == <<"VAR", name>>
LoopStatements ==
    {<<K("SELECT"), V("a"), K("FROM"), V("a"), K("JOIN"), V("a"), K("JOIN"), V("a")>>,
     <<K("SELECT"), V("a"), K("FROM"), V("a"),
       K("LATERAL"), K("VIEW"), V("a"), V("a"), <<"ALIAS", "AS">>, V("a"),
       K("LATERAL"), K("VIEW"), V("a"), V("a"), <<"ALIAS", "AS">>, V("a")>>,
     <<K("WITH"), V("a"), <<"ALIAS", "AS">>, V("a"), <<"COMMA", ",">>,
       V("a"), <<"ALIAS", "AS">>, V("a"), K("SELECT"), V("a")>>,
     <<K("CREATE"), K("TABLE"), V("a"), K("COLLATE"), V("a"), K("ENGINE"), V("a")>>,
     <<V("a"), K("INT"), K("NOT"), K("NULL"), K("AUTO_INCREMENT")>>,
     <<V("a"), <<"PLUS", "+">>, V("a"), <<"PLUS", "+">>, V("a")>>,
     <<K("CASE"), K("WHEN"), V("a"), K("THEN"), V("a"), K("WHEN"), V("a"), K("THEN"), V("a"),
       K("END")>>}

\* Expressions of two binary operators, x op1 y op2 z, with the operators
\* drawn from every rung of the ladder that loops, and the BETWEEN whose AND
\* is followed by a conjunction
Operators ==
    {K("AND"), K("OR"), <<"EQ", "=">>, <<"LT", "<">>, <<"PIPE", "|">>, <<"PLUS", "+">>,
     <<"DASH", "-">>, <<"STAR", "*">>}
PrecedenceStatements ==
    {<<V("x"), op1, V("y"), op2, V("z")>> : op1 \in Operators, op2 \in Operators}
    \cup {<<V("x"), K("BETWEEN"), V("l"), K("AND"), V("h"), K("AND"), V("y"), K("IN"),
            <<"L_PAREN", "(">>, V("b"), <<"R_PAREN", ")">>>>}

\* The two forms of a cast of the column e, for a plain type, the forms of
\* TIMESTAMP and a type with parameters
CastTypes ==
    {<<K("INT")>>, <<K("TIMESTAMP")>>, <<K("TIMESTAMPTZ")>>,
     <<K("TIMESTAMP"), K("WITH"), K("TIME"), K("ZONE")>>,
     <<K("TIMESTAMP"), K("WITHOUT"), K("TIME"), K("ZONE")>>,
     <<K("DECIMAL"), <<"L_PAREN", "(">>, <<"NUMBER", "1">>, <<"COMMA", ",">>,
       <<"NUMBER", "2">>, <<"R_PAREN", ")">>>>}
FunctionForm(e, type) ==
    <<K("CAST"), <<"L_PAREN", "(">>, e, <<"ALIAS", "AS">>>> \o type \o <<<<"R_PAREN", ")">>>>
OperatorForm(e, type) == <<e, <<"DCOLON", "::">>>> \o type
CastStatements ==
    {FunctionForm(V("e"), type) : type \in CastTypes}
    \cup {OperatorForm(V("e"), type) : type \in CastTypes}

\* A keyword that is a type, or may be one, followed by an opening
\* parenthesis or bracket
TypeCalls ==
    {<<K(name), pair[1], <<"NUMBER", "1">>, pair[2]>> :
        name \in {"ARRAY", "DATE", "MAP", "INT", "VARCHAR", "DECIMAL"},
        pair \in {<<<<"L_PAREN", "(">>, <<"R_PAREN", ")">>>>,
                  <<<<"L_BRACKET", "[">>, <<"R_BRACKET", "]">>>>}}

\* Lists whose last comma is followed by the closing parenthesis or by the
\* keyword of the next clause
TrailingCommas ==
    {<<V("f"), <<"L_PAREN", "(">>, V("a"), <<"COMMA", ",">>, <<"R_PAREN", ")">>>>,
     <<V("a"), K("IN"), <<"L_PAREN", "(">>, <<"NUMBER", "1">>, <<"COMMA", ",">>,
       <<"NUMBER", "2">>, <<"COMMA", ",">>, <<"R_PAREN", ")">>>>,
     <<K("SELECT"), V("a"), <<"COMMA", ",">>, K("FROM"), V("a")>>}

\* Options of CREATE and of a column definition: one cut short before
\* another, and one given twice
OptionStatements ==
    {<<K("CREATE"), K("TABLE"), V("a"), K("DEFAULT"), K("ENGINE"), V("a")>>,
     <<K("CREATE"), K("TABLE"), V("a"), K("COLLATE"), K("ENGINE"), V("a")>>,
     <<K("CREATE"), K("TABLE"), V("a"), K("ENGINE"), V("a"), K("ENGINE"), V("a")>>,
     <<V("a"), K("INT"), K("COLLATE"), K("AUTO_INCREMENT")>>,
     <<V("a"), K("INT"), K("NOT"), K("AUTO_INCREMENT")>>,
     <<V("a"), K("INT"), K("AUTO_INCREMENT"), K("AUTO_INCREMENT")>>}

\* Column references of one part, two parts, .. : p, p . q, p . q . r, ..
PartNames == <<"p", "q", "r", "s", "t">>
RECURSIVE Dotted(_)
Dotted(n) ==
    IF n = 1 THEN <<V(PartNames[1])>>
    ELSE Dotted(n - 1) \o <<<<"DOT", ".">>, V(PartNames[n])>>
DottedNames == {Dotted(n) : n \in 1..Len(PartNames)}

\* SELECTs whose LATERAL VIEW clauses come without AS: alone, and after a
\* clause with AS
LateralStatements ==
    {<<K("SELECT"), V("a"), K("FROM"), V("a"), K("LATERAL"), K("VIEW"), V("e"), V("t")>>,
     <<K("SELECT"), V("a"), K("FROM"), V("a"), K("LATERAL"), K("VIEW"), V("e"), V("t"),
       <<"ALIAS", "AS">>, V("c"), K("LATERAL"), K("VIEW"), V("f"), V("u")>>}

Inputs ==
    SeqsUpTo(Alphabet, MaxTokens) \cup FunctionCalls \cup LoopStatements
    \cup PrecedenceStatements \cup CastStatements \cup TypeCalls \cup TrailingCommas
    \cup OptionStatements \cup DottedNames \cup LateralStatements

\* A parser that has been used is used again on the inputs of at most
\* MaxReused tokens, and for expression() after a parse of such an input.
Reparsed == SeqsUpTo(Alphabet, MaxReused)

\* The (class, keyword arguments) a caller passes to expression()
ExpressionInputs ==
    {<<"Hint", <<>>>>,
     <<"Hint", <<<<"this", StrV("")>>>>>>,
     <<"Hint", <<<<"y", StrV("")>>>>>>,
     <<"Hint", <<<<"this", NoneV>>>>>>,
     <<"Hint", <<<<"this", ListV(<<>>)>>>>>>,
     <<"Hint", <<<<"this", StrV("")>>, <<"y", StrV("")>>>>>>,
     <<"Star", <<>>>>,
     <<"Tuple", <<<<"expressions", ListV(<<Token("STAR", "*", 1, 1)>>)>>>>>>}

(***************************************************************************)
(* The state machine: a caller constructs a parser and calls parse() and   *)
(* expression() on it.  parse() is three steps: the reset and the chunk    *)
(* split, one pass of the loop over the chunks, the post-pass and return.  *)
(***************************************************************************)
\* `after` is how the call before it on the same instance ended: "idle" on a
\* parser that has not been used.
NoCall ==
    [op |-> "", raw_tokens |-> <<>>, with_code |-> FALSE, class |-> "", kwargs |-> <<>>,
     after |-> "idle"]

Init ==
    /\ self \in {NewParser(l) : l \in ErrorLevels}
    /\ pc = "idle"
    /\ call = NoCall
    /\ chunk_no = 0
    /\ expressions = <<>>
    /\ returned = NoneV
    /\ parents = {}
    /\ hist = NoHistory

\* parse(raw_tokens, code) up to the loop over the chunks
ParseBegin(pairs, with_code) ==
    /\ pc \in {"idle", "returned", "raised"}
    /\ LET raw_tokens == Lex(pairs)
           code == IF with_code THEN SourceOf(pairs, 1) ELSE <<>>
       IN /\ self' = [reset(self) EXCEPT !.code = code,
                                         !._chunks = SplitChunks(raw_tokens, 1, <<<<>>>>)]
          /\ call' = [NoCall EXCEPT !.op = "parse", !.raw_tokens = raw_tokens,
                                    !.with_code = with_code, !.after = pc]
    /\ pc' = "chunks"
    /\ chunk_no' = 0
    /\ expressions' = <<>>
    /\ returned' = NoneV
    /\ parents' = {}
    /\ hist' = NoHistory

\* The body of the loop without the test for tokens left over after the
\* statement: the fault that C5_LeftoverTokensReported has to detect.
ParseChunkResult_without_leftover_test(st, tokens) ==
    LET s0 == Call("_advance",
                   [st EXCEPT !._index = -1, !._tokens = tokens, !.trail = <<>>], NoneV, NoneV)
        statement == Call("_parse_statement", s0, NoneV, NoneV)
    IN CASE statement.st.exc # "" -> R(statement.st, NoneV)
         [] OTHER -> R(statement.st, _ensure_non_token(statement.v))

\* The body of `for tokens in self._chunks`, on the parser st
ParseChunkResult(st, tokens) ==
    LET s0 == Call("_advance",
                   [st EXCEPT !._index = -1, !._tokens = tokens, !.trail = <<>>], NoneV, NoneV)
        statement == Call("_parse_statement", s0, NoneV, NoneV)
    IN CASE statement.st.exc # "" -> R(statement.st, NoneV)
         [] statement.st._index < Len(statement.st._tokens) ->
                R(Call("raise_error", statement.st,
                       M("Invalid expression / Unexpected token"), NoneV),
                  _ensure_non_token(statement.v))
         [] OTHER -> R(statement.st, _ensure_non_token(statement.v))

\* What one pass of the loop leaves: the instance, and the list or the exception
ChunkParsed(r) ==
    /\ self' = Instance(r.st)
    /\ hist' = History(r.st)
    /\ IF r.st.exc # ""
       THEN pc' = "raised" /\ expressions' = <<>> /\ chunk_no' = chunk_no
       ELSE pc' = "chunks" /\ expressions' = Append(expressions, r.v)
            /\ chunk_no' = chunk_no + 1

\* One pass of `for tokens in self._chunks`
ParseChunk ==
    /\ pc = "chunks"
    /\ chunk_no < Len(self._chunks)
    /\ ChunkParsed(Call("ParseChunkResult", St(self, hist), self._chunks[chunk_no + 1], NoneV))
    /\ UNCHANGED <<call, returned, parents>>

\* The post-pass over the trees and the return of parse()
ParseReturn ==
    /\ pc = "chunks"
    /\ chunk_no = Len(self._chunks)
    /\ parents' = WireParents(expressions)
    /\ returned' = ListV(expressions)
    /\ pc' = "returned"
    /\ UNCHANGED <<self, call, chunk_no, expressions, hist>>

\* What expression() leaves: the instance, and the node or the exception
ExpressionReturned(r) ==
    /\ self' = Instance(r.st)
    /\ hist' = History(r.st)
    /\ returned' = r.v
    /\ pc' = IF r.st.exc # "" THEN "raised" ELSE "returned"

\* V("a") call of expression(exp_class, **kwargs) from outside the parser
ExpressionCall(class, kwargs) ==
    /\ pc \in {"idle", "returned", "raised"}
    /\ Len(call.raw_tokens) <= MaxReused
    /\ ExpressionReturned(Call("expression", St(self, NoHistory), class, kwargs))
    /\ call' = [NoCall EXCEPT !.op = "expression", !.class = class, !.kwargs = kwargs,
                              !.after = pc]
    /\ chunk_no' = 0
    /\ expressions' = <<>>
    /\ parents' = {}

Next ==
    \/ \E pairs \in (IF pc = "idle" THEN Inputs ELSE Reparsed), with_code \in BOOLEAN :
           ParseBegin(pairs, with_code)
    \/ ParseChunk
    \/ ParseReturn
    \/ \E input \in ExpressionInputs : ExpressionCall(input[1], input[2])

Spec == Init /\ [][Next]_vars

(***************************************************************************)
(* The properties.  A call is observed through the variables: `hist` holds *)
(* what happened inside the call that is running or has just ended.        *)
(***************************************************************************)
InParse == call.op = "parse"
Policy == self.error_level

\* C1: under RAISE the first diagnostic reported during a parse aborts the
\* call with a ParseError: it stays the only diagnostic, no token is consumed
\* after it, parse returns no list, and the raised error is the error slot's.
C1_RaiseAborts ==
    (InParse /\ Policy = "RAISE" /\ hist.reported # <<>>) =>
        /\ pc = "raised"
        /\ hist.exc = "ParseError"
        /\ Len(hist.reported) = 1
        /\ hist.reported[1].consumed = Len(hist.consumed)
        /\ returned = NoneV
        /\ expressions = <<>>
        /\ hist.raised = self.error
        /\ hist.raised = hist.reported[1].error

\* a parse under RAISE that consumed a token, then reported and raised
C1_Witness ==
    /\ InParse /\ Policy = "RAISE" /\ pc = "raised"
    /\ hist.reported # <<>> /\ hist.consumed # <<>>
    /\ hist.raised = self.error

RECURSIVE ErrorsOf(_)
ErrorsOf(reports) ==
    IF reports = <<>> THEN <<>>
    ELSE <<reports[1].error>> \o ErrorsOf(Tail(reports))

\* C2: under WARN no exception of any kind escapes parse: every diagnostic
\* is logged, parsing goes on, and the list parse returns has one entry per
\* statement chunk.
C2_WarnNeverAborts ==
    (InParse /\ Policy = "WARN") =>
        /\ hist.exc = ""
        /\ pc # "raised"
        /\ hist.logged = ErrorsOf(hist.reported)
        /\ (pc = "returned" => Len(returned.c) = Len(self._chunks))

InExpression == call.op = "expression"

\* The slots the caller supplied, as the claim reads them
SuppliedKeys == {call.kwargs[i][1] : i \in 1..Len(call.kwargs)}
SuppliedOutsideSchema == \E k \in SuppliedKeys : k \notin SchemaKeys(call.class)
MandatoryUnfilled ==
    \E i \in 1..Len(arg_types(call.class)) :
        /\ arg_types(call.class)[i][2]
        /\ \A j \in 1..Len(call.kwargs) :
               call.kwargs[j][1] = arg_types(call.class)[i][1] =>
                   \/ call.kwargs[j][2] = NoneV
                   \/ call.kwargs[j][2] = ListV(<<>>)
SlotsRejected == SuppliedOutsideSchema \/ MandatoryUnfilled

\* C3: expression(kind, slots) raises ParseError exactly when the policy is
\* RAISE and a supplied slot is outside the schema or a mandatory slot is
\* absent, None or [] (an empty string is a value); under WARN it returns the
\* node and logs the diagnostic; under IGNORE it returns the node and nothing
\* is raised, logged or recorded.  Stated for the calls in which the reporter
\* could place its reference token in the source.
C3_ExpressionRaisesIff ==
    (InExpression /\ hist.exc # "IndexError") =>
        /\ (hist.exc = "ParseError") <=> (Policy = "RAISE" /\ SlotsRejected)
        /\ (pc = "raised") <=> (hist.exc = "ParseError")
        /\ hist.exc \in {"", "ParseError"}
        /\ pc = "returned" => IsNode(returned) /\ returned.s = call.class
        /\ Policy = "WARN" =>
               /\ pc = "returned"
               /\ hist.logged = ErrorsOf(hist.reported)
               /\ SlotsRejected <=> hist.logged # <<>>
        /\ Policy = "IGNORE" =>
               pc = "returned" /\ hist.reported = <<>> /\ hist.logged = <<>>

\* expression(Hint, y="") has raised under RAISE
C3_Witness ==
    /\ InExpression /\ Policy = "RAISE" /\ pc = "raised"
    /\ call.class = "Hint" /\ call.kwargs = <<<<"y", StrV("")>>>>
    /\ hist.exc = "ParseError"

\* The number of maximal runs of non-semicolon tokens of a token list
RECURSIVE Runs(_, _, _)
Runs(tokens, i, inside) ==
    IF i > Len(tokens) THEN 0
    ELSE IF tokens[i].s = "SEMICOLON" THEN Runs(tokens, i + 1, FALSE)
    ELSE (IF inside THEN 0 ELSE 1) + Runs(tokens, i + 1, TRUE)
NonEmptyStatements == Runs(call.raw_tokens, 1, FALSE)

\* C4: when every statement of the input parses (no diagnostic), the list
\* parse returns has as many entries as the input has non-empty statements:
\* an empty statement contributes no entry.
C4_OneTreePerNonEmptyStatement ==
    (InParse /\ pc = "returned" /\ hist.reported = <<>>) =>
        Len(returned.c) = NonEmptyStatements

\* A pass of the loop over the chunks has ended without an exception
ChunkEnded == InParse /\ pc \in {"chunks", "returned"} /\ chunk_no >= 1
LastReport == hist.reported[Len(hist.reported)]

\* C5: when the statement routine of a chunk returns with the index below
\* the chunk's token count, 'Invalid expression / Unexpected token' is
\* reported for the chunk; so under RAISE a chunk ends without an exception
\* only with the index equal to the token count.
C5_LeftoverTokensReported ==
    ChunkEnded =>
        /\ self._index < Len(self._tokens) =>
               /\ hist.reported # <<>>
               /\ LastReport.error.message = M("Invalid expression / Unexpected token")
               /\ LastReport.at = self._index
        /\ Policy = "RAISE" => self._index = Len(self._tokens)

\* a chunk under WARN whose statement left tokens, and the report of it
C5_Witness ==
    /\ ChunkEnded /\ Policy = "WARN"
    /\ self._index > 0 /\ self._index < Len(self._tokens)
    /\ hist.reported # <<>>
    /\ LastReport.error.message = M("Invalid expression / Unexpected token")

\* A node whose args are slots of its schema and fill every mandatory slot
ValidNode(n) ==
    /\ \A i \in 1..Len(n.c) : n.c[i].s \in SchemaKeys(n.s)
    /\ \A i \in 1..Len(arg_types(n.s)) :
           arg_types(n.s)[i][2] =>
               /\ ArgsGet(n, arg_types(n.s)[i][1]) # NoneV
               /\ ArgsGet(n, arg_types(n.s)[i][1]) # ListV(<<>>)

RECURSIVE ValidTree(_)
ValidTree(v) ==
    CASE IsNode(v) -> ValidNode(v) /\ \A i \in 1..Len(v.c) : ValidTree(v.c[i].c[1])
      [] IsList(v) -> \A i \in 1..Len(v.c) : ValidTree(v.c[i])
      [] OTHER -> TRUE

\* C6 as stated: under RAISE and under WARN every node the factory returns
\* and every node of a tree parse returns has only slots of its schema and a
\* value in every mandatory slot.
C6_ValidUnlessIgnore ==
    (pc = "returned" /\ Policy \in {"RAISE", "WARN"}) => ValidTree(returned)

\* C6 amended: the same under RAISE only.
C6_ValidUnderRaise ==
    (pc = "returned" /\ Policy = "RAISE") => ValidTree(returned)

\* under RAISE parse has returned the tree of a function call with arguments
C6_Witness ==
    /\ InParse /\ pc = "returned" /\ Policy = "RAISE"
    /\ Len(returned.c) = 1 /\ IsNode(returned.c[1])
    /\ returned.c[1].s = "If"

\* The value at a place of the returned list: the steps <<key, j>> from a root
RECURSIVE ValueAt(_, _, _)
ValueAt(v, place, k) ==
    IF k > Len(place) THEN v
    ELSE LET held == IF k = 1 THEN ListV(returned.c) ELSE ArgsGet(v, place[k][1])
         IN ValueAt(IF place[k][2] = 0 THEN held ELSE held.c[place[k][2]], place, k + 1)
NodeAt(place) == ValueAt(NoneV, place, 1)

\* The number of nodes below a value, the value included
RECURSIVE SumOver(_, _), CountNodes(_)
SumOver(values, i) ==
    IF i > Len(values) THEN 0 ELSE CountNodes(values[i]) + SumOver(values, i + 1)
CountNodes(v) ==
    CASE IsNode(v) -> 1 + SumOver([i \in 1..Len(v.c) |-> v.c[i].c[1]], 1)
      [] IsList(v) -> SumOver(v.c, 1)
      [] OTHER -> 0
Roots == {i \in 1..Len(returned.c) : IsNode(returned.c[i])}

\* C7: after parse returns, every non-root node of every tree has exactly
\* one back-reference: its parent is the node that holds it and its arg_key
\* the slot under which it is held, directly or inside a list; a parent is
\* nearer to the root than the node, so there is no cycle; a root has no
\* parent.
C7_ParentsWired ==
    (InParse /\ pc = "returned") =>
        /\ \A e \in parents :
               /\ Len(e.node) = Len(e.parent) + 1
               /\ SubSeq(e.node, 1, Len(e.parent)) = e.parent
               /\ e.node[Len(e.node)][1] = e.arg_key
               /\ IsNode(NodeAt(e.parent))
               /\ \E i \in 1..Len(NodeAt(e.parent).c) : NodeAt(e.parent).c[i].s = e.arg_key
               /\ IsNode(NodeAt(e.node))
               /\ Len(e.node) > 1
        /\ \A e, f \in parents : e.node = f.node => e = f
        /\ Cardinality(parents) = CountNodes(returned) - Cardinality(Roots)

\* parse has returned a tree with a node two levels below the root
C7_Witness ==
    /\ InParse /\ pc = "returned"
    /\ \E e \in parents : Len(e.node) = 3 /\ IsNode(NodeAt(e.node))

\* C8: under each of the three policies a reported diagnostic is in the
\* parser's error slot, so the slot holds the most recent diagnostic; it
\* changes only by a report or by the reset at the start of a parse, and it
\* is cleared only by that reset.
C8_ErrorSlotKeepsLastReport ==
    [][/\ hist'.reported # <<>> =>
              self'.error = hist'.reported[Len(hist'.reported)].error
       /\ self'.error # self.error =>
              \/ hist'.reported # <<>> /\ hist'.reported # hist.reported
              \/ (self'.error = NoError /\ call'.op = "parse" /\ pc' = "chunks"
                      /\ chunk_no' = 0 /\ pc # "chunks")
       /\ (self'.error = NoError /\ self.error # NoError) => pc # "chunks" /\ pc' = "chunks"
      ]_vars

\* a parser under IGNORE holds the diagnostic of its parse after an
\* expression() call that reported nothing
C8_Witness ==
    /\ InExpression /\ Policy = "IGNORE" /\ pc = "returned"
    /\ hist.reported = <<>>
    /\ self.error # NoError

\* The call under way is parse of `name ( a , ... , a )`
IsCallOf(name) ==
    /\ InParse /\ Len(call.raw_tokens) >= 3
    /\ call.raw_tokens[1].x = name
    /\ call.raw_tokens[2].s = "L_PAREN"
    /\ call.raw_tokens[Len(call.raw_tokens)].s = "R_PAREN"
    /\ \A i \in 3..Len(call.raw_tokens) - 1 : call.raw_tokens[i].s \in {"VAR", "COMMA"}
    /\ call.raw_tokens[Len(call.raw_tokens) - 1].s # "COMMA"
NArgs == IF Len(call.raw_tokens) = 3 THEN 0 ELSE (Len(call.raw_tokens) - 2) \div 2
ParseEnded == InParse /\ pc \in {"returned", "raised"}
ArityReports ==
    {i \in 1..Len(hist.reported) : hist.reported[i].error.message.n > 0}
MissingReported(k) ==
    \E i \in 1..Len(hist.reported) :
        /\ hist.reported[i].error.message.msg = "Required keyword: '{k}' missing for {class}"
        /\ hist.reported[i].error.message.k = k

ChunksBegun == chunk_no + (IF pc = "raised" THEN 1 ELSE 0)
ConsumedVia(via) == {i \in 1..Len(hist.consumed) : hist.consumed[i].via = via}

\* C10 as stated: during a parse every cursor advance over a token happens
\* inside match, on a token whose kind the routine passed to match.
C10_MatchSoleConsumer ==
    InParse =>
        /\ \A i \in 1..Len(hist.consumed) :
               hist.consumed[i].via = "_match" /\ hist.consumed[i].allowed
        /\ hist.advances = Len(hist.consumed) + ChunksBegun

\* C10 amended: a token is consumed by match, its kind being one of the
\* kinds passed, or by the column routine, which advances over the current
\* token of any kind but COMMA, R_PAREN and WHEN; there is no other advance
\* but the one that opens a chunk; a match that fails returns none and leaves
\* the parser as it was.
C10_ConsumedByMatchOrColumn ==
    InParse =>
        /\ \A i \in 1..Len(hist.consumed) :
               \/ hist.consumed[i].via = "_match" /\ hist.consumed[i].allowed
               \/ /\ hist.consumed[i].via = "_parse_column"
                  /\ hist.consumed[i].type \notin NON_COLUMN_TOKENS
        /\ hist.advances = Len(hist.consumed) + ChunksBegun
        /\ \A types \in {PRIMARY_TOKENS, {"COMMA"}, {"L_PAREN"}, {"DOT"}} :
               (hist.exc = "" /\ self._curr.s \notin types) =>
                   _match(St(self, hist), types) = R(St(self, hist), NoneV)

\* a parse in which the column routine consumed a token that no match asked for
C10_Witness ==
    /\ InParse /\ pc = "returned"
    /\ \E i \in ConsumedVia("_parse_column") : hist.consumed[i].type = "TABLE"
    /\ ConsumedVia("_match") # {}

\* The token at a 0-based position of the chunk being parsed, None outside it
TokenAt(j) == IF 0 <= j /\ j < Len(self._tokens) THEN self._tokens[j + 1] ELSE NoneV
\* The tokens consumed in the chunk being parsed: every advance of the trail
\* but the one that opened the chunk
ConsumedInChunk == Len(hist.trail) - 1

\* C11: within a chunk the index only moves forward, by one per consumed
\* token, from 0: the k-th advance leaves the index at k - 1, so no routine
\* restores an earlier index and the tokens are consumed once each, in input
\* order; at every advance, and when the pass ends, 0 <= index <= token
\* count and (prev, curr, next) are the tokens at index - 1, index, index + 1,
\* None where the position is outside the chunk.
C11_CursorMovesForward ==
    InParse =>
        /\ \A k \in 1..Len(hist.trail) :
               /\ hist.trail[k].index = k - 1
               /\ hist.trail[k].index <= Len(self._tokens)
               /\ hist.trail[k].prev = TokenAt(k - 2)
               /\ hist.trail[k].curr = TokenAt(k - 1)
               /\ hist.trail[k].next = TokenAt(k)
        /\ 0 <= self._index /\ self._index <= Len(self._tokens)
        /\ hist.trail # <<>> => self._index = Len(hist.trail) - 1
        /\ self._prev = TokenAt(self._index - 1)
        /\ self._curr = TokenAt(self._index)
        /\ self._next = TokenAt(self._index + 1)
        /\ hist.trail # <<>> =>
               \A j \in 1..ConsumedInChunk :
                   LET c == hist.consumed[Len(hist.consumed) - ConsumedInChunk + j]
                   IN c.at = j - 1 /\ c.type = self._tokens[j].s

\* both one-token chunks of a parse have been consumed, each from index 0
C11_Witness ==
    /\ InParse /\ chunk_no = 2 /\ Len(self._tokens) = 1
    /\ self._index = 1 /\ Len(hist.trail) = 2
    /\ Len(hist.consumed) = 2

\* parse(raw_tokens, code) run to its end on a parser constructed for it
RECURSIVE FreshChunks(_, _, _)
FreshChunks(st, i, trees) ==
    IF i > Len(st._chunks) THEN [st |-> st, trees |-> trees]
    ELSE LET r == Call("ParseChunkResult", st, st._chunks[i], NoneV)
         IN IF r.st.exc # "" THEN [st |-> r.st, trees |-> <<>>]
            ELSE FreshChunks(r.st, i + 1, Append(trees, r.v))
FreshParse(error_level, raw_tokens, code) ==
    FreshChunks(St([NewParser(error_level) EXCEPT
                        !.code = code, !._chunks = SplitChunks(raw_tokens, 1, <<<<>>>>)],
                   NoHistory),
                1, <<>>)
Fresh ==
    FreshParse(Policy, call.raw_tokens,
               IF call.with_code
               THEN SourceOf([i \in 1..Len(call.raw_tokens) |->
                                  <<call.raw_tokens[i].s, call.raw_tokens[i].x>>], 1)
               ELSE <<>>)

\* C12: whatever calls were made on the instance before, a parse ends as
\* the same parse on a newly constructed parser of the same policy ends: the
\* same fields of the instance (source, error slot, chunks, index, window),
\* the same diagnostics and consumed tokens, the same exception or the same
\* returned list and back-references.
C12_ParseStartsAfresh ==
    ParseEnded =>
        /\ self = Instance(Fresh.st)
        /\ hist = History(Fresh.st)
        /\ (pc = "raised") <=> (Fresh.st.exc # "")
        /\ pc = "returned" =>
               returned = ListV(Fresh.trees) /\ parents = WireParents(Fresh.trees)

\* a parse under WARN has returned on an instance whose call before it
\* ended in an exception
C12_Witness ==
    /\ ParseEnded /\ pc = "returned" /\ call.after = "raised"
    /\ Policy = "WARN" /\ call.raw_tokens # <<>>

\* C13: parse runs to completion on every token list under every policy. No
\* loop of the grammar makes a pass that leaves the cursor where the pass
\* found it, and every step of a parse under way either ends it, by returning
\* or by raising, or takes it to the next of its finitely many statements.
C13_ParseRunsToCompletion ==
    /\ [](hist.exc # "Diverges")
    /\ []((InParse /\ pc = "chunks") => chunk_no <= Len(self._chunks))
    /\ [][(InParse /\ pc = "chunks") =>
              \/ pc' \in {"returned", "raised"}
              \/ pc' = "chunks" /\ chunk_no' = chunk_no + 1]_vars

\* a parse has returned a SELECT whose join loop made two passes
C13_Witness ==
    /\ InParse /\ pc = "returned"
    /\ hist.reported = <<>>
    /\ \E i \in Roots :
           /\ returned.c[i].s = "Select"
           /\ Len(ArgsGet(returned.c[i], "joins").c) = 2

\* The rung of the ladder that consumes a binary operator token, counted
\* from the conjunction rung, which is entered first
Rung(type) ==
    CASE type \in DOMAIN CONJUNCTION -> 1
      [] type \in DOMAIN EQUALITY -> 2
      [] type \in DOMAIN COMPARISON -> 3
      [] type \in DOMAIN BITWISE -> 5
      [] type \in DOMAIN TERM -> 6
      [] type \in DOMAIN FACTOR -> 7
      [] OTHER -> 0
ClassOf(type) ==
    CASE type \in DOMAIN CONJUNCTION -> CONJUNCTION[type]
      [] type \in DOMAIN EQUALITY -> EQUALITY[type]
      [] type \in DOMAIN COMPARISON -> COMPARISON[type]
      [] type \in DOMAIN BITWISE -> BITWISE[type]
      [] type \in DOMAIN TERM -> TERM[type]
      [] type \in DOMAIN FACTOR -> FACTOR[type]
      [] OTHER -> "?"

\* A tree written out in full parentheses, columns by their names
RECURSIVE Infix(_)
Infix(v) ==
    CASE ~IsNode(v) -> "?"
      [] v.s = "Column" -> ArgsGet(ArgsGet(v, "this"), "this").x
      [] v.s = "Between" ->
             "(" \o Infix(ArgsGet(v, "this")) \o " Between " \o Infix(ArgsGet(v, "low"))
             \o " " \o Infix(ArgsGet(v, "high")) \o ")"
      [] v.s = "In" /\ Len(ArgsGet(v, "expressions").c) = 1 ->
             "(" \o Infix(ArgsGet(v, "this")) \o " In "
             \o Infix(ArgsGet(v, "expressions").c[1]) \o ")"
      [] v.s \in BinaryClasses ->
             "(" \o Infix(ArgsGet(v, "this")) \o " " \o v.s \o " "
             \o Infix(ArgsGet(v, "expression")) \o ")"
      [] OTHER -> "?"

\* x op1 y op2 z as the ladder is to read it
Laddered(op1, op2) ==
    IF Rung(op2) > Rung(op1)
    THEN "(x " \o ClassOf(op1) \o " (y " \o ClassOf(op2) \o " z))"
    ELSE "((x " \o ClassOf(op1) \o " y) " \o ClassOf(op2) \o " z)"

IsTwoOperators == Len(call.raw_tokens) = 5 /\ call.raw_tokens[1].x = "x"
IsBetweenAndIn == Len(call.raw_tokens) = 11 /\ call.raw_tokens[1].x = "x"

\* C14: the tree follows the precedence ladder. x op1 y op2 z is
\* op2(op1(x, y), z) when op2 is of the rung of op1 or of a lower one, and
\* op1(x, op2(y, z)) when op2 is of a higher rung; in
\* x BETWEEN l AND h AND y IN (b) the first AND belongs to BETWEEN and the
\* tree is And(Between(x, l, h), In(y, b)).
C14_TreeFollowsLadder ==
    (InParse /\ pc = "returned") =>
        /\ IsTwoOperators =>
               /\ Len(returned.c) = 1
               /\ Infix(returned.c[1])
                      = Laddered(call.raw_tokens[2].s, call.raw_tokens[4].s)
        /\ IsBetweenAndIn =>
               /\ Len(returned.c) = 1
               /\ Infix(returned.c[1]) = "((x Between l h) And (y In b))"

\* x - y + z has been parsed to Plus(Minus(x, y), z)
C14_Witness ==
    /\ InParse /\ pc = "returned" /\ IsTwoOperators
    /\ call.raw_tokens[2].s = "DASH" /\ call.raw_tokens[4].s = "PLUS"
    /\ returned.c[1].s = "Plus"
    /\ ArgsGet(returned.c[1], "this").s = "Minus"
    /\ hist.reported = <<>>

\* The tokens of a call as the pairs of type and text they were placed from
PairsOf(tokens) == [i \in 1..Len(tokens) |-> <<tokens[i].s, tokens[i].x>>]
IsFunctionForm ==
    /\ InParse /\ Len(call.raw_tokens) >= 6
    /\ call.raw_tokens[1].s = "CAST" /\ call.raw_tokens[4].s = "ALIAS"
\* e :: T for the CAST(e AS T) of the call, parsed by a parser of the same
\* policy with its own source text
AsOperatorForm ==
    LET pairs == PairsOf(call.raw_tokens)
        form == OperatorForm(pairs[3], SubSeq(pairs, 5, Len(pairs) - 1))
    IN FreshParse(Policy, Lex(form), SourceOf(form, 1))

\* C15: the two forms of a cast agree. When the parse of CAST(e AS T) has
\* ended, the parse of e :: T under the same policy reports a diagnostic
\* exactly when it did, ends in an exception exactly when it did, and
\* returns the same tree.
C15_CastFormsAgree ==
    (ParseEnded /\ IsFunctionForm /\ call.with_code) =>
        /\ (hist.reported = <<>>) <=> (AsOperatorForm.st.reported = <<>>)
        /\ (pc = "raised") <=> (AsOperatorForm.st.exc # "")
        /\ pc = "returned" => returned = ListV(AsOperatorForm.trees)

\* The calls of the type parser made so far that met a token of the given
\* set followed by an opening parenthesis or bracket
TypedBefore(types) ==
    {i \in 1..Len(hist.typed) :
        hist.typed[i].curr \in types /\ hist.typed[i].next \in {"L_PAREN", "L_BRACKET"}}
Declined(i) == hist.typed[i].none /\ hist.typed[i].to = hist.typed[i].from

CommaWithoutItem ==
    \E i \in 1..Len(call.raw_tokens) :
        /\ call.raw_tokens[i].s = "COMMA"
        /\ \/ i = Len(call.raw_tokens)
           \/ call.raw_tokens[i + 1].s \in {"R_PAREN", "FROM"}
InList ==
    \/ call.raw_tokens[1].s = "SELECT"
    \/ \E i \in 1..Len(call.raw_tokens) : call.raw_tokens[i].s = "L_PAREN"

\* C17: no list with a trailing comma is accepted without a diagnostic. A
\* parse, called with the source text, of a list holding a comma that no item
\* follows has reported a diagnostic by the time it ends.
C17_TrailingCommaReported ==
    (/\ ParseEnded /\ call.with_code /\ call.raw_tokens # <<>>
     /\ InList /\ CommaWithoutItem) =>
        hist.reported # <<>>

\* C18: the option loops of CREATE and of a column definition exit exactly
\* when a full pass consumed no token: after every pass, another pass follows
\* if and only if the pass moved the cursor.
C18_ExitWhenNothingConsumed ==
    \A i \in 1..Len(hist.rounds) :
        hist.rounds[i].again <=> (hist.rounds[i].to > hist.rounds[i].from)

\* C19: the error reporter renders a diagnostic for every reference token
\* and every source, the empty source of a parse called without one
\* included: the offset of the reference token stays within the source, so
\* that no call of parse or of expression ends in an IndexError.
C19_ReporterStaysWithinSource == hist.exc # "IndexError"

\* The call parses a column reference of NParts dot-separated parts
IsDotted ==
    /\ InParse /\ call.raw_tokens # <<>>
    /\ call.raw_tokens[1].x = "p"
    /\ \A i \in 2..Len(call.raw_tokens) :
           call.raw_tokens[i].s = (IF i % 2 = 0 THEN "DOT" ELSE "VAR")
NParts == (Len(call.raw_tokens) + 1) \div 2
Part(k) == IF k >= 1 THEN call.raw_tokens[2 * k - 1].x ELSE ""
\* The text of the identifier in a slot of a node, "" for an empty slot
NameIn(node, k) ==
    IF IsNode(ArgsGet(node, k)) THEN ArgsGet(ArgsGet(node, k), "this").x ELSE ""
\* The node is the column named by the parts n-2, n-1, n: db, table, name
ColumnUpTo(node, n) ==
    /\ IsNode(node) /\ node.s = "Column"
    /\ NameIn(node, "this") = Part(n)
    /\ NameIn(node, "table") = Part(n - 1)
    /\ NameIn(node, "db") = Part(n - 2)
    /\ IsNone(ArgsGet(node, "fields"))
RECURSIVE DotsOver(_, _)
\* The node is Dot(.. Dot(three-level column, part 4) .., part n)
DotsOver(node, n) ==
    IF n <= 3 THEN ColumnUpTo(node, n)
    ELSE /\ IsNode(node) /\ node.s = "Dot"
         /\ NameIn(node, "expression") = Part(n) \/ ArgsGet(node, "expression").x = Part(n)
         /\ DotsOver(ArgsGet(node, "this"), n - 1)

\* C20 as stated: up to three parts give one Column (name, table, db from
\* the right); beyond three, the further dots are Dot expressions over the
\* three-level column.
C20_FurtherDotsAreDots ==
    (IsDotted /\ pc = "returned") =>
        Len(returned.c) = 1 /\ DotsOver(returned.c[1], NParts)

\* C20: up to three parts give one Column whose name is the last part,
\* whose table is the part before it and whose db is the part before that;
\* more than three parts give one Column whose fields slot lists all the
\* parts in order and whose name, table and db are empty.
C20_ColumnOfParts ==
    (IsDotted /\ ParseEnded) =>
        /\ pc = "returned" /\ hist.reported = <<>>
        /\ Len(returned.c) = 1
        /\ NParts <= 3 => ColumnUpTo(returned.c[1], NParts)
        /\ NParts > 3 =>
               /\ returned.c[1].s = "Column"
               /\ \A k \in {"this", "table", "db"} : IsNone(ArgsGet(returned.c[1], k))
               /\ Len(ArgsGet(returned.c[1], "fields").c) = NParts
               /\ \A k \in 1..NParts :
                      ArgsGet(ArgsGet(returned.c[1], "fields").c[k], "this").x = Part(k)

\* p . q . r . s has been parsed to one Column with four fields
C20_Witness ==
    /\ IsDotted /\ pc = "returned" /\ NParts = 4
    /\ returned.c[1].s = "Column"
    /\ Len(ArgsGet(returned.c[1], "fields").c) = 4

\* The places of the LATERAL keywords among the tokens of the call, and
\* whether the clause that begins at such a place has an AS
LateralPlaces == {i \in 1..Len(call.raw_tokens) : call.raw_tokens[i].s = "LATERAL"}
HasAs(p) ==
    \E j \in (p + 1)..Len(call.raw_tokens) :
        /\ call.raw_tokens[j].s = "ALIAS"
        /\ \A q \in LateralPlaces : ~(p < q /\ q < j)
\* The place of the k-th LATERAL
PlaceOfClause(k) ==
    CHOOSE p \in LateralPlaces : Cardinality({q \in LateralPlaces : q < p}) = k - 1

\* C21: every LATERAL VIEW clause without AS yields a Lateral node with an
\* empty column list. A parse of a SELECT with such clauses does not end in
\* an error that is no diagnostic, and when it returns, the SELECT holds
\* one Lateral per clause, with no columns for each clause without AS.
C21_NoAsGivesNoColumns ==
    (ParseEnded /\ LateralPlaces # {} /\ call.raw_tokens[1].s = "SELECT") =>
        /\ hist.exc \in {"", "ParseError"}
        /\ (pc = "returned" /\ hist.reported = <<>>) =>
               LET laterals == ArgsGet(returned.c[1], "laterals").c
               IN /\ Len(laterals) = Cardinality(LateralPlaces)
                  /\ \A k \in 1..Len(laterals) :
                         ~HasAs(PlaceOfClause(k)) =>
                             ArgsGet(laterals[k], "columns").c = <<>>

\* C21, the second fault alone: a clause without AS after a clause with AS
\* does not take over the columns of the earlier clause.
C21_ColumnsNotTakenOver ==
    (ParseEnded /\ pc = "returned" /\ Cardinality(LateralPlaces) = 2
        /\ call.raw_tokens[1].s = "SELECT") =>
        LET laterals == ArgsGet(returned.c[1], "laterals").c
        IN (Len(laterals) = 2 /\ ~HasAs(PlaceOfClause(2))) =>
               ArgsGet(laterals[2], "columns").c = <<>>

====
